---------------------------- MODULE Spec2Model ----------------------------
(***************************************************************************)
(* Model of the gist dashboard scripts under src/.github/scripts:          *)
(*   money_flow.py  - builders, fmt3/fmt2, visual_width,                    *)
(*                    validate_gist_output, agent_refine, update_gist, main *)
(*   agent_gist.py  - update_content_gist, save_memory, main                *)
(* Text is modelled as sequences of Unicode code points.                    *)
(***************************************************************************)
EXTENDS Integers, Sequences, FiniteSets, TLC

VARIABLES
    wIn,        \* visual_width: the argument s
    wOut,       \* visual_width: the returned width (-1 before the call)
    output,     \* validate_gist_output: the argument
    errors,     \* validate_gist_output: the returned list
    vpc,        \* validate_gist_output: "call" before, "ret" after
    mpc,        \* money_flow main: where the run is
    fails,      \* money_flow: the data sources whose request raises in this run
    profile,    \* money_flow: what the other sources return
    lines,      \* main: lines
    explains,   \* main: explains
    info,       \* main: info
    messages,   \* agent_refine: messages
    attempt,    \* agent_refine, update_gist: the loop variable
    calls,      \* agent_refine: chat completions requested so far
    refined,    \* agent_refine: how it returned ("pending" before)
    agent_output, \* main: agent_output
    content,    \* main: content
    source,     \* main: source
    ok,         \* main: ok, as "True" or "False" ("unset" before)
    env,        \* money_flow: the settings of the run read so far
    log,        \* the gist PATCH requests and pauses of the run, in order
    stdout,     \* the texts printed to standard output, in order
    exitCode,   \* the exit status of the process (-1 while it runs)
    apc,        \* agent_gist main: where the run is
    run,        \* agent_gist: the runs started so far
    now,        \* agent_gist main: now, counted in runs of the schedule
    down,       \* agent_gist: the services that fail in this run
    weather,    \* agent_gist main: weather
    memory,     \* agent_gist main: memory
    stored,     \* agent_memory.json in the data gist
    raw,        \* agent_gist main: raw
    shown,      \* agent_gist main: output
    page,       \* the file of the content gist
    cpc,        \* cloud_cover main: where the run is
    meteo,      \* cloud_cover: what the Open-Meteo request returns in this run
    campus,     \* cloud_cover: what the Stanford page request returns in this run
    grid,       \* cloud_cover main: grid
    stanford,   \* cloud_cover main: stanford
    geojson     \* cloud_cover main: geojson

wvars == <<wIn, wOut>>
vvars == <<output, errors, vpc>>
worldvars == <<fails, profile>>
buildvars == <<lines, explains, info>>
refinevars == <<messages, attempt, calls, refined, agent_output>>
pubvars == <<content, source, ok, env>>
outvars == <<log, stdout, exitCode>>
mvars == <<mpc, worldvars, buildvars, refinevars, pubvars>>
avars == <<apc, run, now, down, weather, memory, stored, raw, shown, page>>
cvars == <<cpc, meteo, campus, grid, stanford, geojson>>
vars == <<wvars, vvars, mvars, outvars, avars, cvars>>

(***************************************************************************)
(* Code points                                                             *)
(***************************************************************************)
NL == 10                  \* "\n"
SP == 32                  \* " "
BoxV == 9474              \* U+2502 box-drawing vertical bar
Shade == 9619             \* U+2593 dark shade
Light == 9617             \* U+2591 light shade
ZWJ == 8205               \* U+200D zero width joiner
Green == 128994           \* U+1F7E2 green circle
Yellow == 128993          \* U+1F7E1 yellow circle
Red == 128308             \* U+1F534 red circle
White == 9898             \* U+26AA white circle
Money == 128184           \* U+1F4B8 money with wings
Clip == 128203            \* U+1F4CB clipboard
Scale == 9878             \* U+2696 scales
Bulb == 128161            \* U+1F4A1 light bulb
Warn == 9888              \* U+26A0 warning sign
Crystal == 128302         \* U+1F52E crystal ball

\* Characters that occur only in inputs (a model's reply, a string under test)
Ch == [x       |-> 120,     \* 'x', an ordinary character
       tab     |-> 9,       \* "\t"
       vs1     |-> 65024,   \* U+FE00 variation selector 1
       vs16    |-> 65039,   \* U+FE0F variation selector 16
       acute   |-> 769,     \* U+0301 combining acute accent (Mn)
       keycap  |-> 8419,    \* U+20E3 combining enclosing keycap (Me)
       sun     |-> 9728,    \* U+2600 black sun with rays (So, not wide)
       cloud   |-> 9729,    \* U+2601 cloud (So, not wide)
       cjk     |-> 20013,   \* U+4E2D (Lo, East Asian Wide)
       fullA   |-> 65313,   \* U+FF21 fullwidth A (East Asian Fullwidth)
       mahjong |-> 126977,  \* U+1F001 (So, not East Asian Wide)
       face    |-> 128558,  \* U+1F62E face with open mouth
       dash    |-> 128168]  \* U+1F4A8 dash symbol

(***************************************************************************)
(* unicodedata as used by visual_width, for the code points of the model   *)
(***************************************************************************)
\* unicodedata.east_asian_width(c) in ('W', 'F')
EastAsianWide(cp) ==
    cp \in {Ch.cjk, Ch.fullA, Ch.face, Ch.dash,
            Green, Yellow, Red, White, Money, Clip, Bulb, Crystal}

\* unicodedata.category(c) == 'So'
CategorySo(cp) ==
    cp \in {BoxV, Shade, Light, Ch.sun, Ch.cloud, Ch.mahjong, Ch.face, Ch.dash,
            Green, Yellow, Red, White, Money, Clip, Scale, Bulb, Warn, Crystal,
            9201,            \* U+23F1 stopwatch
            9650, 9660,      \* U+25B2, U+25BC triangles
            9654,            \* U+25B6 right-pointing triangle
            10003, 10007}    \* U+2713, U+2717 check mark, ballot x

\* unicodedata.category(c) in ('Mn', 'Me'): the combining marks
CombiningMark(cp) == cp \in {Ch.vs1, Ch.vs16, Ch.acute, Ch.keycap}

(***************************************************************************)
(* visual_width                                                            *)
(***************************************************************************)
\* mutant: the joiner is no longer skipped
CharWidthCountsJoiner(cp) ==
    IF 65024 <= cp /\ cp <= 65039 THEN 0
    ELSE IF EastAsianWide(cp) THEN 2
    ELSE IF cp > 126976 THEN 2
    ELSE IF CategorySo(cp) /\ cp > 9728 THEN 2
    ELSE 1

\* one iteration of the while loop: the width added for chars[i]
CharWidth(cp) ==
    IF (65024 <= cp /\ cp <= 65039) \/ cp = 8205 THEN 0
    ELSE IF EastAsianWide(cp) THEN 2
    ELSE IF cp > 126976 THEN 2
    ELSE IF CategorySo(cp) /\ cp > 9728 THEN 2
    ELSE 1

RECURSIVE WidthLoop(_, _, _)
WidthLoop(chars, i, width) ==
    IF i > Len(chars) THEN width
    ELSE WidthLoop(chars, i + 1, width + CharWidth(chars[i]))

visual_width(s) == WidthLoop(s, 1, 0)

(***************************************************************************)
(* str helpers: split("\n"), strip(), startswith(), join                   *)
(***************************************************************************)
\* str.isspace() for one character
IsSpace(cp) == cp \in {9, 10, 11, 12, 13, 28, 29, 30, 31, 32, 133, 160}

\* the index of the first "\n" at or after i, past the end when there is none
FindNL(s, i) ==
    IF \E j \in i..Len(s) : s[j] = NL
    THEN CHOOSE j \in i..Len(s) : s[j] = NL /\ \A k \in i..(j - 1) : s[k] # NL
    ELSE IF i > Len(s) THEN i ELSE Len(s) + 1

\* s[from..].split("\n")
RECURSIVE SplitFrom(_, _)
SplitFrom(s, from) ==
    LET j == FindNL(s, from) IN
    IF j > Len(s) THEN << SubSeq(s, from, Len(s)) >>
    ELSE << SubSeq(s, from, j - 1) >> \o SplitFrom(s, j + 1)

Split(s) == SplitFrom(s, 1)

RECURSIVE LStrip(_)
LStrip(s) ==
    IF s # << >> /\ IsSpace(Head(s)) THEN LStrip(Tail(s)) ELSE s

RECURSIVE RStrip(_)
RStrip(s) ==
    IF s # << >> /\ IsSpace(s[Len(s)]) THEN RStrip(SubSeq(s, 1, Len(s) - 1)) ELSE s

Strip(s) == RStrip(LStrip(s))

StartsWith(s, prefix) ==
    Len(s) >= Len(prefix) /\ SubSeq(s, 1, Len(prefix)) = prefix

\* "\n".join(lines)
RECURSIVE JoinNL(_)
JoinNL(lns) ==
    IF lns = << >> THEN << >>
    ELSE IF Len(lns) = 1 THEN lns[1]
    ELSE lns[1] \o << NL >> \o JoinNL(Tail(lns))

\* c * n
Rep(c, n) == [i \in 1..n |-> c]

(***************************************************************************)
(* validate_gist_output                                                    *)
(***************************************************************************)
MaxWidth == 43
DashLines == 5

MsgCount == "Expected 5 dashboard lines, got {n}"
MsgWidth == "Line {line} is {n} chars wide (max 43): '{text}'"
MsgMarker == "Line {line} must start with one of {emojis}"
MsgBlank == "Missing blank line between dashboard and explanations"

Err(msg, line, n, text) == [msg |-> msg, line |-> line, n |-> n, text |-> text]

\* expected = {0: [...], 1: [...], ...}, keyed here by the 1-based line number
Expected(i) ==
    CASE i = 1 -> {<< Green >>, << Yellow >>, << Red >>}
      [] i = 2 -> {<< Money >>}
      [] i = 3 -> {<< Clip >>}
      [] i = 4 -> {<< Scale >>}
      [] i = 5 -> {<< Bulb >>}

\* the index (1-based) of the first blank line, 0 for None
RECURSIVE BlankIdx(_, _)
BlankIdx(lns, i) ==
    IF i > Len(lns) THEN 0
    ELSE IF Strip(lns[i]) = << >> THEN i
    ELSE BlankIdx(lns, i + 1)

\* the lines before the first blank line
Dashboard(lns) ==
    LET b == BlankIdx(lns, 1) IN
    IF b = 0 THEN lns ELSE SubSeq(lns, 1, b - 1)

\* mutant: the limit is tested with >= instead of >
WidthRejectedOffByOne(w) == w >= MaxWidth

WidthRejected(w) == w > MaxWidth

\* mutant: the count test accepts up to 5 lines
CountRejectedAtMost(n) == n > DashLines

CountRejected(n) == n # DashLines

RECURSIVE WidthErrors(_, _)
WidthErrors(dashboard, i) ==
    IF i > Len(dashboard) THEN << >>
    ELSE LET w == visual_width(dashboard[i]) IN
         (IF WidthRejected(w) THEN << Err(MsgWidth, i, w, dashboard[i]) >> ELSE << >>)
         \o WidthErrors(dashboard, i + 1)

\* mutant: only the first marker of a line's list is accepted
HasMarkerFirstOnly(line, idx) ==
    StartsWith(line, CHOOSE e \in Expected(idx) : \A f \in Expected(idx) : e[1] >= f[1])

HasMarker(line, idx) == \E e \in Expected(idx) : StartsWith(line, e)

RECURSIVE MarkerErrors(_, _)
MarkerErrors(dashboard, idx) ==
    IF idx > DashLines THEN << >>
    ELSE (IF idx <= Len(dashboard) /\ ~HasMarker(dashboard[idx], idx)
          THEN << Err(MsgMarker, idx, 0, << >>) >> ELSE << >>)
         \o MarkerErrors(dashboard, idx + 1)

\* mutant: the missing separator is reported only for a short dashboard
BlankMissingShort(lns) == BlankIdx(lns, 1) = 0 /\ Len(lns) < DashLines

BlankMissing(lns) == BlankIdx(lns, 1) = 0

validate_gist_output(out) ==
    LET lns == Split(out)
        dashboard == Dashboard(lns)
    IN  (IF CountRejected(Len(dashboard))
         THEN << Err(MsgCount, 0, Len(dashboard), << >>) >> ELSE << >>)
        \o WidthErrors(dashboard, 1)
        \o MarkerErrors(dashboard, 1)
        \o (IF BlankMissing(lns) THEN << Err(MsgBlank, 0, 0, << >>) >> ELSE << >>)

(***************************************************************************)
(* The string literals of money_flow.py, as code points                    *)
(***************************************************************************)
T == [
    cntgo |-> <<99, 110, 116, 103, 111>>,
    bkwrd |-> <<98, 107, 119, 114, 100>>,
    flat |-> <<102, 108, 97, 116>>,
    q |-> <<63>>,
    hyUp |-> <<72, 89, 8593>>,
    hyDown |-> <<72, 89, 8595>>,
    hyFlat |-> <<72, 89, 8594>>,
    hy |-> <<72, 89>>,
    m2 |-> <<77, 50>>,
    up |-> <<9650>>,
    down |-> <<9660>>,
    pct |-> <<37>>,
    vix |-> <<86, 73, 88, 32>>,
    vixQ |-> <<86, 73, 88, 32, 63>>,
    tenY |-> <<49, 48, 89, 32>>,
    crystal |-> <<128302, 32>>,
    comma |-> <<44, 32>>,
    noCrash |-> <<86, 73, 88, 60, 86, 73, 88, 51, 77, 32, 61, 32, 110, 111, 32, 99, 114, 97, 115, 104, 32, 101, 120, 112, 101, 99, 116, 101, 100>>,
    bracing |-> <<86, 73, 88, 62, 86, 73, 88, 51, 77, 32, 61, 32, 109, 97, 114, 107, 101, 116, 32, 98, 114, 97, 99, 105, 110, 103>>,
    oas |-> <<79, 65, 83, 32>>,
    pctParen |-> <<37, 32, 40>>,
    lt4 |-> <<60, 52, 61, 111, 107>>,
    gt5 |-> <<62, 53, 61, 100, 97, 110, 103, 101, 114>>,
    watch |-> <<119, 97, 116, 99, 104, 62, 53>>,
    rparen |-> <<41>>,
    hyg5d |-> <<72, 89, 71, 32, 53, 100, 32>>,
    risingOk |-> <<114, 105, 115, 105, 110, 103, 61, 111, 107>>,
    fallingStress |-> <<102, 97, 108, 108, 105, 110, 103, 61, 115, 116, 114, 101, 115, 115>>,
    m2tide |-> <<77, 50, 32, 116, 105, 100, 101, 32>>,
    rising |-> <<114, 105, 115, 105, 110, 103>>,
    falling |-> <<102, 97, 108, 108, 105, 110, 103>>,
    m2needs |-> <<77, 50, 32, 110, 101, 101, 100, 115, 32, 70, 82, 69, 68, 32, 107, 101, 121>>,
    flowUnavail |-> <<36, 9654, 32, 102, 108, 111, 119, 32, 117, 110, 97, 118, 97, 105, 108>>,
    mktUnavail |-> <<128184, 32, 109, 97, 114, 107, 101, 116, 32, 100, 97, 116, 97, 32, 117, 110, 97, 118, 97, 105, 108, 97, 98, 108, 101>>,
    semi |-> <<83, 101, 109, 105>>,
    tech |-> <<84, 101, 99, 104>>,
    enrg |-> <<69, 110, 114, 103>>,
    fin |-> <<70, 105, 110>>,
    hlth |-> <<72, 108, 116, 104>>,
    inflow |-> <<9654>>,
    outflow |-> <<9665>>,
    neutral |-> <<8594>>,
    emdash |-> <<8212>>,
    moneySp |-> <<128184, 32>>,
    vsSpy |-> <<32, 40, 53, 100, 32, 118, 115, 32, 83, 80, 89, 41>>,
    insdr |-> <<105, 110, 115, 100, 114, 32>>,
    quiet |-> <<113, 117, 105, 101, 116>>,
    formD |-> <<102, 111, 114, 109, 68, 32>>,
    ai |-> <<32, 65, 73>>,
    totalWk |-> <<32, 116, 111, 116, 97, 108, 32, 119, 107>>,
    nvda |-> <<78, 86, 68, 65>>,
    amd |-> <<65, 77, 68>>,
    tsm |-> <<84, 83, 77>>,
    intc |-> <<73, 78, 84, 67>>,
    colon |-> <<58>>,
    insFilings |-> <<32, 105, 110, 115, 105, 100, 101, 114, 32, 102, 105, 108, 105, 110, 103, 115, 32, 40, 55, 100, 41>>,
    noInsider |-> <<110, 111, 32, 105, 110, 115, 105, 100, 101, 114, 32, 97, 99, 116, 105, 118, 105, 116, 121, 32, 105, 110, 32, 119, 97, 116, 99, 104, 101, 100, 32, 116, 105, 99, 107, 101, 114, 115>>,
    techOf |-> <<32, 116, 101, 99, 104, 47, 65, 73, 32, 111, 102, 32>>,
    formDRaises |-> <<32, 116, 111, 116, 97, 108, 32, 70, 111, 114, 109, 32, 68, 32, 114, 97, 105, 115, 101, 115, 32, 116, 104, 105, 115, 32, 119, 107>>,
    clipSp |-> <<128203, 32>>,
    barSep |-> <<32, 9474, 32>>,
    polyUnavail |-> <<112, 111, 108, 121, 109, 97, 114, 107, 101, 116, 32, 117, 110, 97, 118, 97, 105, 108>>,
    predUnavail |-> <<9878, 32, 112, 114, 101, 100, 105, 99, 116, 105, 111, 110, 32, 109, 97, 114, 107, 101, 116, 115, 32, 117, 110, 97, 118, 97, 105, 108, 97, 98, 108, 101>>,
    scaleSp |-> <<9878, 32>>,
    colonSp |-> <<58, 32>>,
    fedCut |-> <<70, 101, 100, 67, 117, 116>>,
    fedChr |-> <<70, 101, 100, 67, 104, 114>>,
    recsn |-> <<82, 101, 99, 115, 110>>,
    scTarf |-> <<83, 67, 84, 97, 114, 102>>,
    tarRev |-> <<84, 97, 114, 82, 101, 118>>,
    tarif |-> <<84, 97, 114, 105, 102>>,
    infln |-> <<73, 110, 102, 108, 110>>,
    bestAI |-> <<66, 101, 115, 116, 65, 73>>,
    bigCo |-> <<66, 105, 103, 67, 111>>,
    ipos |-> <<73, 80, 79, 115>>,
    shtdwn |-> <<83, 104, 116, 100, 119, 110>>,
    tax |-> <<84, 97, 120>>,
    midtrm |-> <<77, 105, 100, 116, 114, 109>>,
    gdp |-> <<71, 68, 80>>,
    sp500 |-> <<83, 80, 53, 48, 48>>,
    fullRiskOn |-> <<102, 117, 108, 108, 32, 114, 105, 115, 107, 32, 111, 110>>,
    leanLong |-> <<108, 101, 97, 110, 32, 108, 111, 110, 103>>,
    selective |-> <<115, 101, 108, 101, 99, 116, 105, 118, 101>>,
    hedge |-> <<104, 101, 100, 103, 101, 32, 43, 32, 114, 101, 100, 117, 99, 101>>,
    raiseCash |-> <<114, 97, 105, 115, 101, 32, 99, 97, 115, 104>>,
    liqUp |-> <<108, 105, 113, 9650>>,
    liqDown |-> <<108, 105, 113, 9660>>,
    creditDown |-> <<99, 114, 101, 100, 105, 116, 8595>>,
    hyStress |-> <<72, 89, 115, 116, 114, 101, 115, 115>>,
    semiUp |-> <<115, 101, 109, 105, 9650>>,
    hyOk |-> <<72, 89, 32, 111, 107>>,
    mixed |-> <<109, 105, 120, 101, 100>>,
    score |-> <<128161, 32, 115, 99, 111, 114, 101, 32>>,
    vixLc |-> <<118, 105, 120>>,
    cntgo1 |-> <<99, 110, 116, 103, 111, 43, 49>>,
    bkwrd2 |-> <<98, 107, 119, 114, 100, 45, 50>>,
    m2p1 |-> <<77, 50, 43, 49>>,
    semi1 |-> <<115, 101, 109, 105, 43, 49>>,
    error |-> <<9888, 32, 101, 114, 114, 111, 114>>,
    insufficient |-> <<128161, 32, 105, 110, 115, 117, 102, 102, 105, 99, 105, 101, 110, 116, 32, 100, 97, 116, 97>>,
    warnSp |-> <<9888, 32>>,
    signalError |-> <<128161, 32, 115, 105, 103, 110, 97, 108, 32, 101, 114, 114, 111, 114, 58, 32>>,
    stamp |-> <<9201, 32>>,
    lbracket |-> <<32, 91>>,
    rbracket |-> <<93>>,
    agent |-> <<97, 103, 101, 110, 116>>,
    deterministic |-> <<100, 101, 116, 101, 114, 109, 105, 110, 105, 115, 116, 105, 99>>,
    fence |-> <<96, 96, 96>>,
    buildLine |-> <<98, 117, 105, 108, 100, 95, 108, 105, 110, 101>>,
    notIterable |-> <<39, 78, 111, 110, 101, 84, 121, 112, 101, 39, 32, 111, 98, 106, 101, 99, 116, 32, 105, 115, 32, 110, 111, 116, 32, 105, 116, 101, 114, 97, 98, 108, 101>>,
    nn |-> <<10, 10>>,
    now |-> <<78, 111, 118, 32, 48, 54, 32, 48, 57, 58, 51, 48, 65, 77, 32, 80, 84>>,
    dashes |-> <<45, 45, 45>>,
    gistUpdated |-> <<10003, 32, 103, 105, 115, 116, 32, 117, 112, 100, 97, 116, 101, 100>>,
    gistFailed |-> <<10007, 32, 103, 105, 115, 116, 32, 117, 112, 100, 97, 116, 101, 32, 102, 97, 105, 108, 101, 100>>,
    dryRun |-> <<40, 100, 114, 121, 32, 114, 117, 110, 32, 8212, 32, 112, 97, 115, 115, 32, 45, 45, 117, 112, 100, 97, 116, 101, 32, 116, 111, 32, 112, 117, 115, 104, 32, 116, 111, 32, 103, 105, 115, 116, 41>>,
    noGistId |-> <<9888, 32, 78, 111, 32, 77, 79, 78, 69, 89, 95, 71, 73, 83, 84, 95, 73, 68, 32, 115, 101, 116>>,
    sdkMissing |-> <<9888, 32, 111, 112, 101, 110, 97, 105, 32, 83, 68, 75, 32, 110, 111, 116, 32, 105, 110, 115, 116, 97, 108, 108, 101, 100, 44, 32, 117, 115, 105, 110, 103, 32, 100, 101, 116, 101, 114, 109, 105, 110, 105, 115, 116, 105, 99, 32, 111, 117, 116, 112, 117, 116>>,
    agentValid |-> <<10003, 32, 65, 103, 101, 110, 116, 32, 112, 114, 111, 100, 117, 99, 101, 100, 32, 118, 97, 108, 105, 100, 32, 111, 117, 116, 112, 117, 116, 32, 111, 110, 32, 97, 116, 116, 101, 109, 112, 116, 32>>,
    agentAttempt |-> <<32, 32, 65, 103, 101, 110, 116, 32, 97, 116, 116, 101, 109, 112, 116, 32>>,
    errorsSfx |-> <<32, 101, 114, 114, 111, 114, 40, 115, 41>>,
    errorSep |-> <<32, 101, 114, 114, 111, 114, 58, 32>>,
    agentFailed |-> <<9888, 32, 65, 103, 101, 110, 116, 32, 102, 97, 105, 108, 101, 100, 32, 97, 102, 116, 101, 114, 32, 53, 32, 97, 116, 116, 101, 109, 112, 116, 115, 44, 32, 117, 115, 105, 110, 103, 32, 100, 101, 116, 101, 114, 109, 105, 110, 105, 115, 116, 105, 99, 32, 111, 117, 116, 112, 117, 116>>,
    apiError |-> <<67, 111, 110, 110, 101, 99, 116, 105, 111, 110, 32, 101, 114, 114, 111, 114, 46>>,
    fmtErrors |-> <<70, 111, 114, 109, 97, 116, 116, 105, 110, 103, 32, 101, 114, 114, 111, 114, 115, 32, 102, 111, 117, 110, 100, 58, 10>>,
    fixThese |-> <<10, 10, 70, 105, 120, 32, 116, 104, 101, 115, 101, 32, 101, 114, 114, 111, 114, 115, 46, 32, 69, 97, 99, 104, 32, 100, 97, 115, 104, 98, 111, 97, 114, 100, 32, 108, 105, 110, 101, 32, 109, 117, 115, 116, 32, 98, 101, 32, 8804, 52, 51, 32, 118, 105, 115, 117, 97, 108, 32, 99, 104, 97, 114, 115, 32, 40, 101, 109, 111, 106, 105, 61, 50, 44, 32, 9474, 61, 49, 44, 32, 111, 116, 104, 101, 114, 115, 61, 49, 41, 46, 32, 79, 117, 116, 112, 117, 116, 32, 79, 78, 76, 89, 32, 116, 104, 101, 32, 99, 111, 114, 114, 101, 99, 116, 101, 100, 32, 103, 105, 115, 116, 32, 99, 111, 110, 116, 101, 110, 116, 46>>,
    expectedGot |-> <<69, 120, 112, 101, 99, 116, 101, 100, 32, 53, 32, 100, 97, 115, 104, 98, 111, 97, 114, 100, 32, 108, 105, 110, 101, 115, 44, 32, 103, 111, 116, 32>>,
    lineSp |-> <<76, 105, 110, 101, 32>>,
    isSp |-> <<32, 105, 115, 32>>,
    charsWide |-> <<32, 99, 104, 97, 114, 115, 32, 119, 105, 100, 101, 32, 40, 109, 97, 120, 32, 52, 51, 41, 58, 32, 39>>,
    apos |-> <<39>>,
    mustStart |-> <<32, 109, 117, 115, 116, 32, 115, 116, 97, 114, 116, 32, 119, 105, 116, 104, 32, 111, 110, 101, 32, 111, 102, 32>>,
    missingBlank |-> <<77, 105, 115, 115, 105, 110, 103, 32, 98, 108, 97, 110, 107, 32, 108, 105, 110, 101, 32, 98, 101, 116, 119, 101, 101, 110, 32, 100, 97, 115, 104, 98, 111, 97, 114, 100, 32, 97, 110, 100, 32, 101, 120, 112, 108, 97, 110, 97, 116, 105, 111, 110, 115>>,
    expected1 |-> <<91, 39, 128994, 39, 44, 32, 39, 128993, 39, 44, 32, 39, 128308, 39, 93>>,
    expected2 |-> <<91, 39, 128184, 39, 93>>,
    expected3 |-> <<91, 39, 128203, 39, 93>>,
    expected4 |-> <<91, 39, 9878, 39, 93>>,
    expected5 |-> <<91, 39, 128161, 39, 93>>,
    qFed |-> <<87, 105, 108, 108, 32, 116, 104, 101, 32, 70, 101, 100, 32, 99, 117, 116, 32, 114, 97, 116, 101, 115, 32, 105, 110, 32, 68, 101, 99, 101, 109, 98, 101, 114, 63>>,
    tFed |-> <<70, 101, 100, 32, 100, 101, 99, 105, 115, 105, 111, 110, 32, 105, 110, 32, 68, 101, 99, 101, 109, 98, 101, 114, 63>>,
    tRecession |-> <<85, 83, 32, 114, 101, 99, 101, 115, 115, 105, 111, 110, 32, 105, 110, 32, 50, 48, 50, 54, 63>>,
    tApple |-> <<87, 105, 108, 108, 32, 65, 112, 112, 108, 101, 32, 114, 101, 108, 101, 97, 115, 101, 32, 97, 32, 102, 111, 108, 100, 97, 98, 108, 101, 32, 112, 104, 111, 110, 101, 63>>,
    tNvidia |-> <<78, 118, 105, 100, 105, 97, 32, 101, 97, 114, 110, 105, 110, 103, 115, 32, 98, 101, 97, 116, 63>>,
    tGoogle |-> <<87, 104, 97, 116, 32, 119, 105, 108, 108, 32, 71, 111, 111, 103, 108, 101, 32, 97, 110, 110, 111, 117, 110, 99, 101, 63>>]

\* SYSTEM_PROMPT, the system message of every conversation
SYSTEM_PROMPT ==
    <<89, 111, 117, 32, 102, 111, 114, 109, 97, 116, 32, 102, 105, 110, 97,
    110, 99, 105, 97, 108, 32, 109, 97, 114, 107, 101, 116, 32, 100, 97,
    116, 97, 32, 105, 110, 116, 111, 32, 97, 32, 112, 105, 110, 110, 101,
    100, 32, 71, 105, 116, 72, 117, 98, 32, 103, 105, 115, 116, 32, 100,
    97, 115, 104, 98, 111, 97, 114, 100, 46, 10, 10, 72, 65, 82, 68, 32,
    67, 79, 78, 83, 84, 82, 65, 73, 78, 84, 83, 32, 40, 97, 110, 121, 32,
    118, 105, 111, 108, 97, 116, 105, 111, 110, 32, 61, 32, 114, 101, 106,
    101, 99, 116, 101, 100, 41, 58, 10, 45, 32, 69, 120, 97, 99, 116, 108,
    121, 32, 53, 32, 108, 105, 110, 101, 115, 32, 102, 111, 114, 32, 116,
    104, 101, 32, 100, 97, 115, 104, 98, 111, 97, 114, 100, 32, 40, 98,
    101, 102, 111, 114, 101, 32, 116, 104, 101, 32, 98, 108, 97, 110, 107,
    32, 108, 105, 110, 101, 41, 10, 45, 32, 69, 97, 99, 104, 32, 108, 105,
    110, 101, 32, 77, 85, 83, 84, 32, 98, 101, 32, 8804, 52, 51, 32, 99,
    104, 97, 114, 97, 99, 116, 101, 114, 115, 32, 86, 73, 83, 85, 65, 76,
    32, 119, 105, 100, 116, 104, 10, 45, 32, 69, 109, 111, 106, 105, 32,
    61, 32, 50, 32, 99, 104, 97, 114, 115, 32, 118, 105, 115, 117, 97, 108,
    32, 119, 105, 100, 116, 104, 46, 32, 9474, 32, 61, 32, 49, 32, 99, 104,
    97, 114, 46, 32, 65, 108, 108, 32, 111, 116, 104, 101, 114, 32, 99,
    104, 97, 114, 115, 32, 61, 32, 49, 46, 10, 45, 32, 90, 87, 74, 32, 101,
    109, 111, 106, 105, 32, 115, 101, 113, 117, 101, 110, 99, 101, 115, 32,
    40, 101, 46, 103, 46, 32, 128558, 8205, 128168, 41, 32, 61, 32, 50, 32,
    99, 104, 97, 114, 115, 32, 116, 111, 116, 97, 108, 32, 118, 105, 115,
    117, 97, 108, 32, 119, 105, 100, 116, 104, 46, 10, 45, 32, 69, 97, 99,
    104, 32, 108, 105, 110, 101, 32, 115, 116, 97, 114, 116, 115, 32, 119,
    105, 116, 104, 32, 97, 32, 115, 112, 101, 99, 105, 102, 105, 99, 32,
    101, 109, 111, 106, 105, 58, 10, 32, 32, 76, 105, 110, 101, 32, 49, 58,
    32, 128994, 32, 111, 114, 32, 128993, 32, 111, 114, 32, 128308, 32, 40,
    114, 101, 103, 105, 109, 101, 32, 100, 111, 116, 32, 8212, 32, 98, 97,
    115, 101, 100, 32, 111, 110, 32, 86, 73, 88, 32, 108, 101, 118, 101,
    108, 41, 10, 32, 32, 76, 105, 110, 101, 32, 50, 58, 32, 128184, 32, 40,
    115, 101, 99, 116, 111, 114, 32, 102, 108, 111, 119, 115, 32, 8212, 32,
    115, 104, 111, 119, 32, 114, 101, 108, 97, 116, 105, 118, 101, 32, 112,
    101, 114, 102, 111, 114, 109, 97, 110, 99, 101, 41, 10, 32, 32, 76,
    105, 110, 101, 32, 51, 58, 32, 128203, 32, 40, 83, 69, 67, 32, 102,
    105, 108, 105, 110, 103, 115, 32, 8212, 32, 105, 110, 115, 105, 100,
    101, 114, 32, 116, 114, 97, 100, 101, 115, 32, 43, 32, 70, 111, 114,
    109, 32, 68, 32, 99, 111, 117, 110, 116, 115, 41, 10, 32, 32, 76, 105,
    110, 101, 32, 52, 58, 32, 9878, 32, 40, 80, 111, 108, 121, 109, 97,
    114, 107, 101, 116, 32, 112, 114, 101, 100, 105, 99, 116, 105, 111,
    110, 115, 32, 8212, 32, 115, 104, 111, 119, 32, 112, 114, 111, 98, 97,
    98, 105, 108, 105, 116, 105, 101, 115, 41, 10, 32, 32, 76, 105, 110,
    101, 32, 53, 58, 32, 128161, 32, 40, 115, 105, 103, 110, 97, 108, 32,
    115, 121, 110, 116, 104, 101, 115, 105, 115, 32, 8212, 32, 121, 111,
    117, 114, 32, 115, 104, 97, 114, 112, 32, 116, 97, 107, 101, 41, 10,
    45, 32, 85, 115, 101, 32, 9474, 32, 97, 115, 32, 99, 111, 108, 117,
    109, 110, 32, 115, 101, 112, 97, 114, 97, 116, 111, 114, 32, 40, 107,
    101, 101, 112, 115, 32, 109, 111, 110, 111, 115, 112, 97, 99, 101, 32,
    97, 108, 105, 103, 110, 109, 101, 110, 116, 41, 10, 45, 32, 65, 102,
    116, 101, 114, 32, 116, 104, 101, 32, 53, 32, 100, 97, 115, 104, 98,
    111, 97, 114, 100, 32, 108, 105, 110, 101, 115, 58, 32, 111, 110, 101,
    32, 98, 108, 97, 110, 107, 32, 108, 105, 110, 101, 44, 32, 116, 104,
    101, 110, 32, 52, 45, 53, 32, 101, 120, 112, 108, 97, 110, 97, 116,
    105, 111, 110, 32, 108, 105, 110, 101, 115, 10, 45, 32, 69, 120, 112,
    108, 97, 110, 97, 116, 105, 111, 110, 32, 108, 105, 110, 101, 115, 32,
    117, 110, 112, 97, 99, 107, 32, 116, 104, 101, 32, 100, 97, 115, 104,
    98, 111, 97, 114, 100, 32, 100, 97, 116, 97, 32, 102, 111, 114, 32,
    115, 111, 109, 101, 111, 110, 101, 32, 119, 104, 111, 32, 99, 108, 105,
    99, 107, 115, 32, 105, 110, 10, 45, 32, 68, 111, 32, 78, 79, 84, 32,
    97, 100, 100, 32, 97, 32, 116, 105, 109, 101, 115, 116, 97, 109, 112,
    32, 8212, 32, 105, 116, 32, 103, 101, 116, 115, 32, 97, 112, 112, 101,
    110, 100, 101, 100, 32, 97, 117, 116, 111, 109, 97, 116, 105, 99, 97,
    108, 108, 121, 10, 10, 68, 65, 84, 65, 32, 65, 67, 67, 85, 82, 65, 67,
    89, 32, 40, 99, 114, 105, 116, 105, 99, 97, 108, 41, 58, 10, 45, 32,
    85, 115, 101, 32, 69, 88, 65, 67, 84, 32, 110, 117, 109, 98, 101, 114,
    115, 32, 102, 114, 111, 109, 32, 116, 104, 101, 32, 112, 114, 111, 118,
    105, 100, 101, 100, 32, 100, 97, 116, 97, 46, 32, 78, 101, 118, 101,
    114, 32, 105, 110, 118, 101, 110, 116, 32, 111, 114, 32, 114, 111, 117,
    110, 100, 32, 97, 103, 103, 114, 101, 115, 115, 105, 118, 101, 108,
    121, 46, 10, 45, 32, 76, 105, 110, 101, 32, 51, 32, 109, 117, 115, 116,
    32, 105, 110, 99, 108, 117, 100, 101, 32, 97, 99, 116, 117, 97, 108,
    32, 105, 110, 115, 105, 100, 101, 114, 32, 102, 105, 108, 105, 110,
    103, 32, 99, 111, 117, 110, 116, 115, 32, 97, 110, 100, 32, 70, 111,
    114, 109, 32, 68, 32, 110, 117, 109, 98, 101, 114, 115, 32, 102, 114,
    111, 109, 32, 116, 104, 101, 32, 100, 97, 116, 97, 46, 10, 45, 32, 76,
    105, 110, 101, 32, 52, 32, 109, 117, 115, 116, 32, 117, 115, 101, 32,
    116, 104, 101, 32, 97, 99, 116, 117, 97, 108, 32, 80, 111, 108, 121,
    109, 97, 114, 107, 101, 116, 32, 115, 104, 111, 114, 116, 32, 108, 97,
    98, 101, 108, 115, 32, 97, 110, 100, 32, 112, 114, 111, 98, 97, 98,
    105, 108, 105, 116, 105, 101, 115, 46, 10, 45, 32, 73, 102, 32, 100,
    97, 116, 97, 32, 115, 97, 121, 115, 32, 34, 65, 77, 68, 58, 50, 34, 32,
    102, 111, 114, 32, 105, 110, 115, 105, 100, 101, 114, 32, 102, 105,
    108, 105, 110, 103, 115, 44, 32, 115, 104, 111, 119, 32, 34, 65, 77,
    68, 58, 50, 34, 32, 8212, 32, 100, 111, 110, 39, 116, 32, 100, 114,
    111, 112, 32, 105, 116, 46, 10, 10, 83, 84, 89, 76, 69, 58, 10, 45, 32,
    66, 101, 32, 115, 104, 97, 114, 112, 32, 97, 110, 100, 32, 115, 112,
    101, 99, 105, 102, 105, 99, 32, 105, 110, 32, 76, 105, 110, 101, 32,
    53, 32, 40, 115, 121, 110, 116, 104, 101, 115, 105, 115, 41, 46, 32,
    78, 111, 116, 32, 34, 109, 97, 114, 107, 101, 116, 115, 32, 109, 105,
    120, 101, 100, 34, 32, 98, 117, 116, 32, 34, 115, 101, 109, 105, 32,
    108, 101, 97, 100, 105, 110, 103, 44, 32, 99, 114, 101, 100, 105, 116,
    32, 99, 97, 108, 109, 32, 61, 32, 108, 101, 97, 110, 32, 105, 110, 116,
    111, 32, 116, 101, 99, 104, 34, 10, 45, 32, 69, 120, 112, 108, 97, 110,
    97, 116, 105, 111, 110, 32, 108, 105, 110, 101, 115, 32, 115, 104, 111,
    117, 108, 100, 32, 116, 101, 108, 108, 32, 116, 104, 101, 32, 115, 116,
    111, 114, 121, 58, 32, 99, 111, 110, 110, 101, 99, 116, 32, 116, 104,
    101, 32, 100, 111, 116, 115, 32, 98, 101, 116, 119, 101, 101, 110, 32,
    86, 73, 88, 44, 32, 102, 108, 111, 119, 115, 44, 32, 102, 105, 108,
    105, 110, 103, 115, 44, 32, 97, 110, 100, 32, 112, 114, 101, 100, 105,
    99, 116, 105, 111, 110, 115, 10, 45, 32, 85, 115, 101, 32, 97, 98, 98,
    114, 101, 118, 105, 97, 116, 105, 111, 110, 115, 32, 116, 104, 97, 116,
    32, 102, 105, 116, 58, 32, 99, 110, 116, 103, 111, 44, 32, 98, 107,
    119, 114, 100, 44, 32, 108, 105, 113, 44, 32, 72, 89, 44, 32, 49, 48,
    89, 44, 32, 105, 110, 115, 100, 114, 44, 32, 102, 111, 114, 109, 68,
    10, 45, 32, 84, 104, 101, 32, 101, 120, 112, 108, 97, 110, 97, 116,
    105, 111, 110, 32, 115, 101, 99, 116, 105, 111, 110, 32, 105, 115, 32,
    119, 104, 101, 114, 101, 32, 121, 111, 117, 32, 97, 100, 100, 32, 114,
    101, 97, 108, 32, 105, 110, 115, 105, 103, 104, 116, 32, 8212, 32, 119,
    104, 97, 116, 32, 100, 111, 101, 115, 32, 116, 104, 105, 115, 32, 99,
    111, 109, 98, 105, 110, 97, 116, 105, 111, 110, 32, 111, 102, 32, 115,
    105, 103, 110, 97, 108, 115, 32, 109, 101, 97, 110, 63, 10, 10, 79, 85,
    84, 80, 85, 84, 58, 32, 79, 110, 108, 121, 32, 116, 104, 101, 32, 103,
    105, 115, 116, 32, 99, 111, 110, 116, 101, 110, 116, 32, 40, 53, 32,
    100, 97, 115, 104, 98, 111, 97, 114, 100, 32, 108, 105, 110, 101, 115,
    32, 43, 32, 98, 108, 97, 110, 107, 32, 43, 32, 101, 120, 112, 108, 97,
    110, 97, 116, 105, 111, 110, 115, 41, 46, 32, 78, 111, 116, 104, 105,
    110, 103, 32, 101, 108, 115, 101, 46>>

(***************************************************************************)
(* Number formatting.  Prices are held in tenths, closes in hundredths,    *)
(* returns and spreads in hundredths of a percent.                         *)
(***************************************************************************)
Abs(n) == IF n < 0 THEN -n ELSE n
Min(a, b) == IF a < b THEN a ELSE b
Max(a, b) == IF a > b THEN a ELSE b

\* str(n), n >= 0
RECURSIVE Digits(_)
Digits(n) == IF n < 10 THEN << 48 + n >> ELSE Digits(n \div 10) \o << 48 + (n % 10) >>

\* v / 10 rounded half to even, v >= 0
RoundDiv10(v) ==
    LET q == v \div 10
        r == v % 10
    IN  IF r < 5 THEN q
        ELSE IF r > 5 THEN q + 1
        ELSE IF q % 2 = 0 THEN q ELSE q + 1

\* f"{x:.0f}", x in tenths
Fmt0(tenths) == Digits(RoundDiv10(tenths))

\* f"{x:.1f}", x in tenths
Fmt1(tenths) == Digits(tenths \div 10) \o << 46 >> \o Digits(tenths % 10)

\* f"{x:.1f}", x in hundredths
Fmt1h(h) == Fmt1(RoundDiv10(h))

\* f"{x:+.1f}", x in hundredths
FmtSigned1h(h) == (IF h < 0 THEN << 45 >> ELSE << 43 >>) \o Fmt1h(Abs(h))

\* f"{n:+d}"
FmtSignedInt(n) == (IF n < 0 THEN << 45 >> ELSE << 43 >>) \o Digits(Abs(n))

\* sep.join(parts)
RECURSIVE Join(_, _)
Join(sep, parts) ==
    IF parts = << >> THEN << >>
    ELSE IF Len(parts) = 1 THEN parts[1]
    ELSE parts[1] \o sep \o Join(sep, Tail(parts))

\* c in s
HasChar(s, c) == \E i \in DOMAIN s : s[i] = c

\* sub in s
Contains(s, sub) ==
    \E i \in 0..(Len(s) - Len(sub)) : SubSeq(s, i + 1, i + Len(sub)) = sub

(***************************************************************************)
(* fmt3, fmt2                                                              *)
(***************************************************************************)
W1 == 14
W2 == 13

\* f"{c:<{w}}"
PadRight(c, w) == c \o Rep(SP, Max(0, w - Len(c)))

fmt3(emoji, c1, c2, c3) ==
    emoji \o << SP >> \o PadRight(c1, W1) \o << BoxV, SP >>
          \o PadRight(c2, W2) \o << BoxV, SP >> \o c3

fmt2(emoji, c1, c2) ==
    emoji \o << SP >> \o PadRight(c1, W1 + 2 + W2) \o << BoxV, SP >> \o c2

(***************************************************************************)
(* info: the dict main threads through the builders.  A key is present     *)
(* exactly when it is in the DOMAIN.                                       *)
(***************************************************************************)
EmptyDict == << >>
Has(d, k) == k \in DOMAIN d
Get(d, k, default) == IF k \in DOMAIN d THEN d[k] ELSE default
\* d.update(data)
Update(d, data) == data @@ d
\* d[k] = v
Put(d, k, v) == (k :> v) @@ d

\* None for a str-valued local; `if credit:` treats None and "" alike
None == << >>

(***************************************************************************)
(* yahoo, safe_5d                                                          *)
(* A fetch result is [ok |-> FALSE] when the request raised.               *)
(***************************************************************************)
Failed == [ok |-> FALSE]
Quote(price, closes) == [ok |-> TRUE, price |-> price, closes |-> closes]

\* safe_5d raises (IndexError, ZeroDivisionError) on these
Safe5dRaises(closes) ==
    \/ closes = << >>
    \/ (IF Len(closes) < 6 THEN closes[1] ELSE closes[Len(closes) - 5]) = 0

\* 5-day return in hundredths of a percent
safe_5d(closes) ==
    LET n == Len(closes) IN
    IF n < 6 THEN ((closes[n] - closes[1]) * 10000) \div closes[1]
    ELSE ((closes[n] - closes[n - 5]) * 10000) \div closes[n - 5]

(***************************************************************************)
(* build_line1: regime                                                     *)
(* f: the fetch results  vix, vix3m, hyg, tnx (quotes),                    *)
(*    fredHY [ok, value], fredM2 [ok, cur, prev]; fredKey: FRED_KEY is set *)
(***************************************************************************)
\* mutant: an unavailable VIX is shown with the yellow dot
RegimeDotYellowDefault(vixSet, vix, struct) ==
    IF vixSet /\ vix < 150 /\ struct = T.cntgo THEN << Green >>
    ELSE IF vixSet /\ (vix > 250 \/ struct = T.bkwrd) THEN << Red >>
    ELSE << Yellow >>

\* mutant: a VIX of exactly 15 still counts as calm
RegimeDotUpTo15(vixSet, vix, struct) ==
    IF vixSet
    THEN IF vix <= 150 /\ struct = T.cntgo THEN << Green >>
         ELSE IF vix > 250 \/ struct = T.bkwrd THEN << Red >>
         ELSE << Yellow >>
    ELSE << White >>

\* the regime color; vix in tenths
RegimeDot(vixSet, vix, struct) ==
    IF vixSet
    THEN IF vix < 150 /\ struct = T.cntgo THEN << Green >>
         ELSE IF vix > 250 \/ struct = T.bkwrd THEN << Red >>
         ELSE << Yellow >>
    ELSE << White >>

build_line1(f, fredKey) ==
    LET \* VIX + term structure
        vixSet == f.vix.ok
        vix == IF f.vix.ok THEN f.vix.price ELSE 0
        volOk == f.vix.ok /\ f.vix3m.ok /\ f.vix3m.price # 0
        struct == IF ~(f.vix.ok /\ f.vix3m.ok /\ f.vix3m.price # 0) THEN T.q
                  ELSE IF 100 * f.vix.price < 97 * f.vix3m.price THEN T.cntgo
                  ELSE IF 100 * f.vix.price > 103 * f.vix3m.price THEN T.bkwrd
                  ELSE T.flat
        \* credit proxy
        hygOk == f.hyg.ok /\ ~Safe5dRaises(f.hyg.closes)
        Proxy(hyg_ret) == IF hyg_ret > 30 THEN T.hyUp
                          ELSE IF hyg_ret < -50 THEN T.hyDown
                          ELSE T.hyFlat
        credit1 == IF f.hyg.ok /\ ~Safe5dRaises(f.hyg.closes)
                   THEN Proxy(safe_5d(f.hyg.closes)) ELSE None
        \* HY OAS from FRED: credit is assigned before expl[-1], which raises
        \* IndexError on an empty expl
        oasFetched == fredKey /\ f.fredHY.ok
        oasOk == oasFetched /\ (volOk \/ hygOk)
        \* M2 from FRED
        m2Ok == fredKey /\ f.fredM2.ok /\ f.fredM2.prev # 0
        M2Str(g) == T.m2 \o (IF g > 0 THEN T.up ELSE T.down) \o Fmt1h(Abs(g)) \o T.pct
        m2_str == M2Str(((f.fredM2.cur - f.fredM2.prev) * 10000) \div f.fredM2.prev)
        \* 10Y yield
        tnySet == f.tnx.ok
        tny == IF f.tnx.ok THEN f.tnx.price ELSE 0
        \* the assignments to info and credit, in order
        SetVol(d) == IF volOk THEN [vix |-> vix, struct |-> struct] ELSE d
        SetProxy(d, c) == IF hygOk THEN Put(d, "credit", c) ELSE d
        SetOas(d, c) == IF oasOk
                        THEN Put(Put(d, "credit", c), "hy_spread", f.fredHY.value)
                        ELSE d
        SetM2(d) == IF m2Ok THEN Put(d, "m2", m2_str) ELSE d
        SetTny(d) == IF tnySet THEN Put(d, "10y", tny) ELSE d
        Credit(c1) == IF oasFetched THEN T.hy \o Digits(f.fredHY.value) ELSE c1
        Collect(c1, c) == SetTny(SetM2(SetOas(SetProxy(SetVol(EmptyDict), c1), c)))
        Explain(inf, credit, hy) ==
            (IF struct = T.cntgo THEN << T.noCrash >>
             ELSE IF struct = T.bkwrd THEN << T.bracing >> ELSE << >>)
            \o (IF hy # 0
                THEN << T.oas \o Fmt1h(hy) \o T.pctParen
                        \o (IF hy < 400 THEN T.lt4
                            ELSE IF hy > 500 THEN T.gt5 ELSE T.watch)
                        \o T.rparen >>
                ELSE IF credit # None
                THEN << T.hyg5d
                        \o (IF HasChar(credit, 8593) THEN T.risingOk
                            ELSE IF HasChar(credit, 8595) THEN T.fallingStress
                            ELSE T.flat) >>
                ELSE << >>)
            \o (IF Has(inf, "m2")
                THEN << T.m2tide \o (IF HasChar(inf["m2"], 9650) THEN T.rising
                                     ELSE T.falling) >>
                ELSE << T.m2needs >>)
        Render(inf, credit) ==
            [line |-> fmt3(RegimeDot(vixSet, vix, struct),
                           IF vixSet /\ vix # 0
                           THEN T.vix \o Fmt0(vix) \o << SP >> \o struct
                           ELSE T.vixQ,
                           Join(<< SP >>,
                                (IF credit # None THEN << credit >> ELSE << >>)
                                \o (IF Has(inf, "m2") THEN << inf["m2"] >> ELSE << >>)),
                           IF tnySet /\ tny # 0 THEN T.tenY \o Fmt1(tny) ELSE << >>),
             explain |-> T.crystal
                         \o Join(T.comma, Explain(inf, credit, Get(inf, "hy_spread", 0))),
             data |-> inf,
             raised |-> FALSE]
        WithCredit(c1, c) == Render(Collect(c1, c), c)
        WithProxy(c1) == WithCredit(c1, Credit(c1))
    IN  WithProxy(credit1)

(***************************************************************************)
(* build_line2: sector flows                                               *)
(* f: spy (quote), sectors (a quote per entry of SECTORS)                  *)
(***************************************************************************)
SECTORS == << T.semi, T.tech, T.enrg, T.fin, T.hlth >>

Flow(lbl, rel, r) == [lbl |-> lbl, rel |-> rel, r |-> r]

\* flows.sort(key=rel, reverse=True): stable, descending
RECURSIVE InsertFlow(_, _)
InsertFlow(x, sorted) ==
    IF sorted = << >> THEN << x >>
    ELSE IF Head(sorted).rel >= x.rel THEN << Head(sorted) >> \o InsertFlow(x, Tail(sorted))
    ELSE << x >> \o sorted

RECURSIVE SortFlows(_, _)
SortFlows(flows, sorted) ==
    IF flows = << >> THEN sorted
    ELSE SortFlows(Tail(flows), InsertFlow(Head(flows), sorted))

RECURSIVE SectorFlows(_, _, _)
SectorFlows(sectors, i, spy_5d) ==
    IF i > Len(SECTORS) THEN << >>
    ELSE (IF sectors[i].ok /\ ~Safe5dRaises(sectors[i].closes)
          THEN LET r == safe_5d(sectors[i].closes) IN << Flow(SECTORS[i], r - spy_5d, r) >>
          ELSE << >>)
         \o SectorFlows(sectors, i + 1, spy_5d)

IsInflow(x) == x.rel > 50
IsOutflow(x) == x.rel < -50
IsNeutral(x) == -50 <= x.rel /\ x.rel <= 50

\* one entry of parts: arrow, label, bar of 5 cells
FlowPart(x) ==
    LET bars == Min((Abs(x.rel) * 3) \div 200, 5)
        b == Rep(Shade, bars) \o Rep(Light, Max(0, 5 - bars))
    IN  (IF x.rel > 50 THEN T.inflow
         ELSE IF x.rel < -50 THEN T.outflow
         ELSE T.neutral) \o x.lbl \o b

FlowStr(x) ==
    x.lbl \o (IF x.rel > 50 THEN T.up ELSE IF x.rel < -50 THEN T.down ELSE T.neutral)
          \o FmtSigned1h(x.rel) \o T.pct

Map(s, Op(_)) == [i \in DOMAIN s |-> Op(s[i])]

build_line2(f) ==
    IF ~f.spy.ok \/ Safe5dRaises(f.spy.closes)
    THEN [line |-> T.flowUnavail, explain |-> T.mktUnavail, data |-> EmptyDict,
          raised |-> FALSE]
    ELSE
    LET \* show: up to 2 inflows, then the weakest outflow or the first neutral,
        \* then a third inflow when fewer than 3 are shown
        Tail3(show, inflows) ==
            IF Len(show) < 3 /\ Len(inflows) > 2 THEN Append(show, inflows[3]) ELSE show
        Show(inflows, outflows, neutral) ==
            Tail3(SubSeq(inflows, 1, Min(2, Len(inflows)))
                  \o (IF outflows # << >> THEN << outflows[Len(outflows)] >>
                      ELSE IF neutral # << >> THEN << neutral[1] >>
                      ELSE << >>),
                  inflows)
        \* while len(parts) < 3: parts.append("—")
        Parts(named) == named \o [i \in 1..(3 - Len(named)) |-> T.emdash]
        Line(parts) == fmt3(<< Money >>, parts[1], parts[2], parts[3])
        Render(flows) ==
            [line |-> Line(Parts(Map(Show(SelectSeq(flows, IsInflow),
                                          SelectSeq(flows, IsOutflow),
                                          SelectSeq(flows, IsNeutral)),
                                     FlowPart))),
             explain |-> T.moneySp \o Join(<< SP >>, Map(flows, FlowStr)) \o T.vsSpy,
             data |-> [flows |-> flows],
             raised |-> FALSE]
    IN  Render(SortFlows(SectorFlows(f.sectors, 1, safe_5d(f.spy.closes)), << >>))

(***************************************************************************)
(* build_line3: SEC EDGAR filings                                          *)
(* f: tickers (per watched ticker [ok, recent], recent a list of           *)
(*    [form4, inWindow]), formD and formDAll ([ok, total])                 *)
(***************************************************************************)
WATCHED == << T.nvda, T.amd, T.tsm, T.intc >>

\* sum(1 for i in range(min(30, len(form))) if form[i] == "4" and date[i] >= cutoff)
Form4Count(recent) ==
    Cardinality({i \in 1..Min(30, Len(recent)) : recent[i].form4 /\ recent[i].inWindow})

RECURSIVE InsiderParts(_, _)
InsiderParts(tickers, i) ==
    IF i > Len(WATCHED) THEN << >>
    ELSE (IF tickers[i].ok /\ Form4Count(tickers[i].recent) > 0
          THEN << WATCHED[i] \o T.colon \o Digits(Form4Count(tickers[i].recent)) >>
          ELSE << >>)
         \o InsiderParts(tickers, i + 1)

build_line3(f) ==
    LET insider_parts == InsiderParts(f.tickers, 1)
        insider_str == IF insider_parts # << >> THEN Join(<< SP >>, insider_parts)
                       ELSE T.quiet
        form_d_count == IF f.formD.ok THEN f.formD.total ELSE 0
        form_d_total == IF f.formD.ok /\ f.formDAll.ok THEN f.formDAll.total ELSE 0
        c1 == T.insdr \o insider_str
        c2 == T.formD \o Digits(form_d_count) \o T.ai
        c3 == Digits(form_d_total) \o T.totalWk
        ex == << IF insider_parts # << >>
                 THEN Join(T.comma, insider_parts) \o T.insFilings
                 ELSE T.noInsider,
                 Digits(form_d_count) \o T.techOf \o Digits(form_d_total)
                     \o T.formDRaises >>
    IN  [line |-> fmt3(<< Clip >>, c1, c2, c3),
         explain |-> T.clipSp \o Join(T.barSep, ex),
         data |-> EmptyDict,
         raised |-> FALSE]

(***************************************************************************)
(* build_line4: Polymarket                                                 *)
(* f: poly [ok, iterable, events]; an event is [title, description,        *)
(*    markets], a market [expired, priced, prob, question], prob in tenths *)
(*    of a percent                                                         *)
(***************************************************************************)
\* fed, tariff, rate, recession, economy, inflation, interest rate, ipo,
\* gdp, debt, treasury, tax, shutdown, ai model, ai , largest company,
\* stock, s&p, earnings, nvidia, openai, anthropic, google, apple,
\* microsoft, semiconductor, chip, climate, temperature
POLY_KEYWORDS == {
    <<102, 101, 100>>,
    <<116, 97, 114, 105, 102, 102>>,
    <<114, 97, 116, 101>>,
    <<114, 101, 99, 101, 115, 115, 105, 111, 110>>,
    <<101, 99, 111, 110, 111, 109, 121>>,
    <<105, 110, 102, 108, 97, 116, 105, 111, 110>>,
    <<105, 110, 116, 101, 114, 101, 115, 116, 32, 114, 97, 116, 101>>,
    <<105, 112, 111>>,
    <<103, 100, 112>>,
    <<100, 101, 98, 116>>,
    <<116, 114, 101, 97, 115, 117, 114, 121>>,
    <<116, 97, 120>>,
    <<115, 104, 117, 116, 100, 111, 119, 110>>,
    <<97, 105, 32, 109, 111, 100, 101, 108>>,
    <<97, 105, 32>>,
    <<108, 97, 114, 103, 101, 115, 116, 32, 99, 111, 109, 112, 97, 110, 121>>,
    <<115, 116, 111, 99, 107>>,
    <<115, 38, 112>>,
    <<101, 97, 114, 110, 105, 110, 103, 115>>,
    <<110, 118, 105, 100, 105, 97>>,
    <<111, 112, 101, 110, 97, 105>>,
    <<97, 110, 116, 104, 114, 111, 112, 105, 99>>,
    <<103, 111, 111, 103, 108, 101>>,
    <<97, 112, 112, 108, 101>>,
    <<109, 105, 99, 114, 111, 115, 111, 102, 116>>,
    <<115, 101, 109, 105, 99, 111, 110, 100, 117, 99, 116, 111, 114>>,
    <<99, 104, 105, 112>>,
    <<99, 108, 105, 109, 97, 116, 101>>,
    <<116, 101, 109, 112, 101, 114, 97, 116, 117, 114, 101>>}

\* nba, nfl, premier league, champions league, fifa, world cup, la liga,
\* mvp, deport, dutch, bitcoin, crypto, nhl, mlb, serie a, stranger things,
\* gta, oscars, youtube, views, pikachu, olympics, ice hockey, nobel, f1 ,
\* bad bunny, opensea, fdv, measles, australian open, super bowl, logan
\* paul, war, strike, iran, ukraine, ceasefire, greenland, khamenei, invade,
\* taiwan, venezuela, regime, leader, putin, xi jinping, aliens, moon land,
\* ligue, bundesliga, europa, nuggets, mavericks, bucks, sentinels, lol:,
\* paris mayor, senate, prime minister, presidential, silver, gold,
\* polymarket, puffpaw, backpack, metamask, edgex, hottest year, weather
POLY_SKIP == {
    <<110, 98, 97>>,
    <<110, 102, 108>>,
    <<112, 114, 101, 109, 105, 101, 114, 32, 108, 101, 97, 103, 117, 101>>,
    <<99, 104, 97, 109, 112, 105, 111, 110, 115, 32, 108, 101, 97, 103, 117, 101>>,
    <<102, 105, 102, 97>>,
    <<119, 111, 114, 108, 100, 32, 99, 117, 112>>,
    <<108, 97, 32, 108, 105, 103, 97>>,
    <<109, 118, 112>>,
    <<100, 101, 112, 111, 114, 116>>,
    <<100, 117, 116, 99, 104>>,
    <<98, 105, 116, 99, 111, 105, 110>>,
    <<99, 114, 121, 112, 116, 111>>,
    <<110, 104, 108>>,
    <<109, 108, 98>>,
    <<115, 101, 114, 105, 101, 32, 97>>,
    <<115, 116, 114, 97, 110, 103, 101, 114, 32, 116, 104, 105, 110, 103, 115>>,
    <<103, 116, 97>>,
    <<111, 115, 99, 97, 114, 115>>,
    <<121, 111, 117, 116, 117, 98, 101>>,
    <<118, 105, 101, 119, 115>>,
    <<112, 105, 107, 97, 99, 104, 117>>,
    <<111, 108, 121, 109, 112, 105, 99, 115>>,
    <<105, 99, 101, 32, 104, 111, 99, 107, 101, 121>>,
    <<110, 111, 98, 101, 108>>,
    <<102, 49, 32>>,
    <<98, 97, 100, 32, 98, 117, 110, 110, 121>>,
    <<111, 112, 101, 110, 115, 101, 97>>,
    <<102, 100, 118>>,
    <<109, 101, 97, 115, 108, 101, 115>>,
    <<97, 117, 115, 116, 114, 97, 108, 105, 97, 110, 32, 111, 112, 101, 110>>,
    <<115, 117, 112, 101, 114, 32, 98, 111, 119, 108>>,
    <<108, 111, 103, 97, 110, 32, 112, 97, 117, 108>>,
    <<119, 97, 114>>,
    <<115, 116, 114, 105, 107, 101>>,
    <<105, 114, 97, 110>>,
    <<117, 107, 114, 97, 105, 110, 101>>,
    <<99, 101, 97, 115, 101, 102, 105, 114, 101>>,
    <<103, 114, 101, 101, 110, 108, 97, 110, 100>>,
    <<107, 104, 97, 109, 101, 110, 101, 105>>,
    <<105, 110, 118, 97, 100, 101>>,
    <<116, 97, 105, 119, 97, 110>>,
    <<118, 101, 110, 101, 122, 117, 101, 108, 97>>,
    <<114, 101, 103, 105, 109, 101>>,
    <<108, 101, 97, 100, 101, 114>>,
    <<112, 117, 116, 105, 110>>,
    <<120, 105, 32, 106, 105, 110, 112, 105, 110, 103>>,
    <<97, 108, 105, 101, 110, 115>>,
    <<109, 111, 111, 110, 32, 108, 97, 110, 100>>,
    <<108, 105, 103, 117, 101>>,
    <<98, 117, 110, 100, 101, 115, 108, 105, 103, 97>>,
    <<101, 117, 114, 111, 112, 97>>,
    <<110, 117, 103, 103, 101, 116, 115>>,
    <<109, 97, 118, 101, 114, 105, 99, 107, 115>>,
    <<98, 117, 99, 107, 115>>,
    <<115, 101, 110, 116, 105, 110, 101, 108, 115>>,
    <<108, 111, 108, 58>>,
    <<112, 97, 114, 105, 115, 32, 109, 97, 121, 111, 114>>,
    <<115, 101, 110, 97, 116, 101>>,
    <<112, 114, 105, 109, 101, 32, 109, 105, 110, 105, 115, 116, 101, 114>>,
    <<112, 114, 101, 115, 105, 100, 101, 110, 116, 105, 97, 108>>,
    <<115, 105, 108, 118, 101, 114>>,
    <<103, 111, 108, 100>>,
    <<112, 111, 108, 121, 109, 97, 114, 107, 101, 116>>,
    <<112, 117, 102, 102, 112, 97, 119>>,
    <<98, 97, 99, 107, 112, 97, 99, 107>>,
    <<109, 101, 116, 97, 109, 97, 115, 107>>,
    <<101, 100, 103, 101, 120>>,
    <<104, 111, 116, 116, 101, 115, 116, 32, 121, 101, 97, 114>>,
    <<119, 101, 97, 116, 104, 101, 114>>}

\* s.lower(), ASCII
Lower(s) == [i \in DOMAIN s |-> IF 65 <= s[i] /\ s[i] <= 90 THEN s[i] + 32 ELSE s[i]]

\* the index of the first occurrence of sub in s, 0 when there is none
FindSub(s, sub) ==
    IF Contains(s, sub)
    THEN CHOOSE i \in 1..(Len(s) - Len(sub) + 1) :
             /\ SubSeq(s, i, i + Len(sub) - 1) = sub
             /\ \A j \in 1..(i - 1) : SubSeq(s, j, j + Len(sub) - 1) # sub
    ELSE 0

\* s.split(sep)[0]
BeforeFirst(s, sep) ==
    LET Cut(i) == IF i = 0 THEN s ELSE SubSeq(s, 1, i - 1) IN Cut(FindSub(s, sep))

\* s.replace(sub, rep)
RECURSIVE Replace(_, _, _)
Replace(s, sub, rep) ==
    LET At(i) == IF i = 0 THEN s
                 ELSE SubSeq(s, 1, i - 1) \o rep
                      \o Replace(SubSeq(s, i + Len(sub), Len(s)), sub, rep)
    IN  At(FindSub(s, sub))

\* for rm in words: s = s.replace(rm, "")
RECURSIVE RemoveAll(_, _)
RemoveAll(s, words) ==
    IF words = << >> THEN s
    ELSE RemoveAll(Replace(s, Head(words), << >>), Tail(words))

\* "Will ", "the ", "Trump ", "United States ", "How many ", "What will ", "Who will "
LabelStopWords ==
    << <<87, 105, 108, 108, 32>>, <<116, 104, 101, 32>>,
       <<84, 114, 117, 109, 112, 32>>,
       <<85, 110, 105, 116, 101, 100, 32, 83, 116, 97, 116, 101, 115, 32>>,
       <<72, 111, 119, 32, 109, 97, 110, 121, 32>>,
       <<87, 104, 97, 116, 32, 119, 105, 108, 108, 32>>,
       <<87, 104, 111, 32, 119, 105, 108, 108, 32>> >>

\* the substrings the label patterns look for in the lowered title
K == [fed |-> <<102, 101, 100>>, fomc |-> <<102, 111, 109, 99>>,
      rate |-> <<114, 97, 116, 101>>, cut |-> <<99, 117, 116>>,
      decrease |-> <<100, 101, 99, 114, 101, 97, 115, 101>>,
      interest |-> <<105, 110, 116, 101, 114, 101, 115, 116>>,
      fedChair |-> <<102, 101, 100, 32, 99, 104, 97, 105, 114>>,
      nominate |-> <<110, 111, 109, 105, 110, 97, 116, 101>>,
      recession |-> <<114, 101, 99, 101, 115, 115, 105, 111, 110>>,
      tariff |-> <<116, 97, 114, 105, 102, 102>>,
      supreme |-> <<115, 117, 112, 114, 101, 109, 101>>,
      revenue |-> <<114, 101, 118, 101, 110, 117, 101>>,
      inflation |-> <<105, 110, 102, 108, 97, 116, 105, 111, 110>>,
      aiModel |-> <<97, 105, 32, 109, 111, 100, 101, 108>>,
      bestAi |-> <<98, 101, 115, 116, 32, 97, 105>>,
      largest |-> <<108, 97, 114, 103, 101, 115, 116, 32, 99, 111, 109, 112, 97, 110, 121>>,
      ipo |-> <<105, 112, 111>>,
      shutdown |-> <<115, 104, 117, 116, 100, 111, 119, 110>>,
      tax |-> <<116, 97, 120>>,
      midterm |-> <<109, 105, 100, 116, 101, 114, 109>>,
      gdp |-> <<103, 100, 112>>,
      sandp |-> <<115, 38, 112>>,
      sp500 |-> <<115, 112, 53, 48, 48>>,
      qmark |-> <<63>>, dots |-> <<46, 46, 46>>, twoSp |-> <<32, 32>>]

\* the last index of a space in s, 0 when there is none
LastSpace(s) ==
    IF HasChar(s, SP)
    THEN CHOOSE i \in DOMAIN s : s[i] = SP /\ \A j \in (i + 1)..Len(s) : s[j] # SP
    ELSE 0

\* the short label of an event title
ShortLabel(event_title) ==
    LET \* short[:9].rsplit(" ", 1)
        Cut(short, sp) ==
            IF Len(short) > 8
            THEN IF sp > 0 THEN SubSeq(short, 1, sp - 1) ELSE SubSeq(short, 1, 7)
            ELSE short
        Generic(short) == Cut(short, LastSpace(SubSeq(short, 1, Min(9, Len(short)))))
        Label(title, rl) ==
            LET has(k) == Contains(rl, k)
            IN  IF (has(K.fed) \/ has(K.fomc))
                   /\ (has(K.rate) \/ has(K.cut) \/ has(K.decrease) \/ has(K.interest))
                THEN T.fedCut
                ELSE IF has(K.fedChair) \/ (has(K.nominate) /\ has(K.fed)) THEN T.fedChr
                ELSE IF has(K.recession) THEN T.recsn
                ELSE IF has(K.tariff) /\ has(K.supreme) THEN T.scTarf
                ELSE IF has(K.tariff) /\ has(K.revenue) THEN T.tarRev
                ELSE IF has(K.tariff) THEN T.tarif
                ELSE IF has(K.inflation) THEN T.infln
                ELSE IF has(K.aiModel) \/ has(K.bestAi) THEN T.bestAI
                ELSE IF has(K.largest) THEN T.bigCo
                ELSE IF has(K.ipo) THEN T.ipos
                ELSE IF has(K.shutdown) THEN T.shtdwn
                ELSE IF has(K.tax) THEN T.tax
                ELSE IF has(K.midterm) THEN T.midtrm
                ELSE IF has(K.gdp) THEN T.gdp
                ELSE IF has(K.sandp) \/ has(K.sp500) THEN T.sp500
                ELSE Generic(Strip(Replace(RemoveAll(title, LabelStopWords), K.twoSp,
                                           << SP >>)))
        Lowered(title) == Label(title, Lower(title))
    IN  Lowered(Strip(BeforeFirst(BeforeFirst(event_title, K.qmark), K.dots)))

\* whether the loop body appends a market for event e
EventListed(e) ==
    LET title_lower == Lower(e.title)
        search_text == title_lower \o << SP >> \o Lower(e.description)
    IN  /\ ~\E k \in POLY_SKIP : Contains(title_lower, k)
        /\ \E k \in POLY_KEYWORDS : Contains(search_text, k)
        /\ e.markets # << >>
        /\ ~e.markets[1].expired
        /\ e.markets[1].priced
        /\ ~(e.markets[1].prob < 100 \/ e.markets[1].prob > 850)

Market(short, full, prob) == [short |-> short, full |-> full, prob |-> prob]

\* for e in events: ... if len(markets) >= 3: break
RECURSIVE CollectMarkets(_, _)
CollectMarkets(events, markets) ==
    IF events = << >> \/ Len(markets) >= 3 THEN markets
    ELSE LET e == Head(events) IN
         CollectMarkets(Tail(events),
             IF EventListed(e)
             THEN Append(markets,
                      Market(ShortLabel(e.title) \o << SP >> \o Fmt0(e.markets[1].prob)
                                 \o T.pct,
                             e.markets[1].question, e.markets[1].prob))
             ELSE markets)

\* trim_q
TrimQ(q) ==
    LET First40(t) == SubSeq(t, 1, Min(40, Len(t)))
    IN  First40(RemoveAll(Strip(BeforeFirst(q, K.qmark)), SubSeq(LabelStopWords, 1, 4)))

MarketStr(m) == TrimQ(m.full) \o T.colonSp \o Fmt0(m.prob) \o T.pct

build_line4(f) ==
    IF f.poly.ok /\ ~f.poly.iterable
    THEN [line |-> << >>, explain |-> << >>, data |-> EmptyDict, raised |-> TRUE]
    ELSE
    LET \* while len(markets) < 3: markets.append({"short": "—", ...})
        Pad(found) ==
            IF found # << >>
            THEN found \o [i \in 1..(3 - Len(found)) |-> Market(T.emdash, << >>, 0)]
            ELSE found
        Render(markets) ==
            [line |-> IF markets # << >>
                      THEN fmt3(<< Scale >>, markets[1].short, markets[2].short,
                                markets[3].short)
                      ELSE fmt2(<< Scale >>, T.polyUnavail, T.emdash),
             explain |-> IF markets # << >>
                         THEN T.scaleSp \o Join(T.barSep, Map(markets, MarketStr))
                         ELSE T.predUnavail,
             data |-> [markets |-> markets],
             raised |-> FALSE]
    IN  Render(Pad(CollectMarkets(IF f.poly.ok THEN f.poly.events ELSE << >>, << >>)))

(***************************************************************************)
(* build_line5: signal synthesis from info                                 *)
(***************************************************************************)
\* the score thresholds of the signal text
Signal(score) ==
    IF score >= 4 THEN T.fullRiskOn
    ELSE IF score >= 2 THEN T.leanLong
    ELSE IF score >= 0 THEN T.selective
    ELSE IF score >= -2 THEN T.hedge
    ELSE T.raiseCash

\* for lbl, rel, _ in flows: if lbl == "Semi" and rel > 1
SemiLeads(flows) == \E i \in DOMAIN flows : flows[i].lbl = T.semi /\ flows[i].rel > 100

build_line5(inf) ==
    LET vix == Get(inf, "vix", 200)
        struct == Get(inf, "struct", T.q)
        m2 == Get(inf, "m2", << >>)
        credit == Get(inf, "credit", << >>)
        hySet == Has(inf, "hy_spread")
        hy == Get(inf, "hy_spread", 0)
        flows == Get(inf, "flows", << >>)
        sVix == IF vix < 150 THEN 2 ELSE IF vix < 200 THEN 1
                ELSE IF vix > 300 THEN -2 ELSE IF vix > 250 THEN -1 ELSE 0
        sStruct == IF struct = T.cntgo THEN 1 ELSE IF struct = T.bkwrd THEN -2 ELSE 0
        sM2 == IF Contains(m2, T.up) THEN 1 ELSE IF Contains(m2, T.down) THEN -1 ELSE 0
        sCredit == IF HasChar(credit, 8593) THEN 1
                   ELSE IF HasChar(credit, 8595) THEN -1 ELSE 0
        sHy == IF ~hySet THEN 0 ELSE IF hy < 350 THEN 1 ELSE IF hy > 550 THEN -2 ELSE 0
        sSemi == IF SemiLeads(flows) THEN 1 ELSE 0
        score == sVix + sStruct + sM2 + sCredit + sHy + sSemi
        r1 == (IF sM2 = 1 THEN << T.liqUp >> ELSE IF sM2 = -1 THEN << T.liqDown >> ELSE << >>)
              \o (IF sCredit = -1 THEN << T.creditDown >> ELSE << >>)
              \o (IF hySet /\ hy > 550 THEN << T.hyStress >> ELSE << >>)
              \o (IF flows # << >> /\ flows[1].rel > 200
                  THEN << Lower(flows[1].lbl) >> ELSE << >>)
              \o (IF sSemi = 1 THEN << T.semiUp >> ELSE << >>)
        \* structural reasons
        r2 == r1 \o (IF struct = T.cntgo /\ sM2 # 1 THEN << T.cntgo >> ELSE << >>)
                 \o (IF sCredit = 1 THEN << T.hyOk >> ELSE << >>)
        reason_str == IF r2 # << >> THEN Join(<< SP >>, SubSeq(r2, 1, Min(4, Len(r2))))
                      ELSE T.mixed
        \* score breakdown
        vs == IF vix < 150 THEN 2 ELSE IF vix < 200 THEN 1 ELSE IF vix > 250 THEN -1 ELSE 0
        breakdown ==
            (IF Has(inf, "vix") /\ vix # 0 /\ vs # 0
             THEN << T.vixLc \o FmtSignedInt(vs) >> ELSE << >>)
            \o (IF struct = T.cntgo THEN << T.cntgo1 >>
                ELSE IF struct = T.bkwrd THEN << T.bkwrd2 >> ELSE << >>)
            \o (IF sM2 = 1 THEN << T.m2p1 >> ELSE << >>)
            \o (IF sSemi = 1 THEN << T.semi1 >> ELSE << >>)
    IN  [line |-> fmt2(<< Bulb >>, reason_str, Signal(score)),
         explain |-> T.score \o FmtSignedInt(score)
                     \o (IF breakdown # << >>
                         THEN T.colonSp \o Join(<< SP >>, breakdown) ELSE << >>)]

(***************************************************************************)
(* Idle values of the parts a specification does not exercise              *)
(***************************************************************************)
WidthIdle == wIn = << >> /\ wOut = -1
ValidateIdle == output = << >> /\ errors = << >> /\ vpc = "idle"
EnvUnread == [apiKey |-> "unread", sdk |-> "unread", update |-> "unread",
              gistId |-> "unread"]
MoneyIdle ==
    /\ mpc = "idle" /\ fails = {} /\ profile = "calm"
    /\ lines = << >> /\ explains = << >> /\ info = EmptyDict
    /\ messages = << >> /\ attempt = 0 /\ calls = 0 /\ refined = "pending"
    /\ agent_output = None
    /\ content = << >> /\ source = << >> /\ ok = "unset" /\ env = EnvUnread

CloudIdle ==
    /\ cpc = "idle" /\ meteo = None /\ campus = None
    /\ grid = << >> /\ stanford = None /\ geojson = None
AgentIdle ==
    /\ apc = "idle" /\ run = 0 /\ now = 0 /\ down = {}
    /\ weather = None /\ memory = None /\ stored = None
    /\ raw = None /\ shown = None /\ page = None
NothingDone == log = << >> /\ stdout = << >> /\ exitCode = -1

(***************************************************************************)
(* SpecWidth: visual_width applied to every short string over a set of     *)
(* characters with one representative of each class the function tells     *)
(* apart                                                                   *)
(***************************************************************************)
MaxStrLen == 3

WidthAlphabet ==
    {Ch.x, BoxV, Shade, ZWJ, Ch.vs1, Ch.vs16, Ch.acute, Ch.keycap, Ch.sun,
     Ch.cloud, Ch.cjk, Ch.fullA, Ch.mahjong, Green, Scale}

StringsUpTo(alphabet, n) == UNION {[1..k -> alphabet] : k \in 0..n}

InitWidth ==
    /\ wIn \in StringsUpTo(WidthAlphabet, MaxStrLen)
    /\ wOut = -1
    /\ ValidateIdle
    /\ MoneyIdle
    /\ AgentIdle
    /\ NothingDone
    /\ CloudIdle

CallVisualWidth ==
    /\ wOut = -1
    /\ wOut' = visual_width(wIn)
    /\ UNCHANGED <<wIn, vvars, mvars, outvars, avars, cvars>>

NextWidth == CallVisualWidth

SpecWidth == InitWidth /\ [][NextWidth]_vars

(***************************************************************************)
(* SpecValidate: validate_gist_output applied to outputs of up to MaxLines *)
(* lines, each line one of LineKinds: 43 wide with its marker, 44 wide     *)
(* with its marker, its marker after a leading space, or blank (empty on   *)
(* even lines, whitespace-only on odd ones)                                *)
(***************************************************************************)
MaxLines == 6

LineKinds == {"fit", "wide", "bare", "blank"}

\* the marker a well-formed reply puts on line i (explanations start with a crystal ball)
MarkerOf(i, dot) ==
    CASE i = 1 -> dot
      [] i = 2 -> Money
      [] i = 3 -> Clip
      [] i = 4 -> Scale
      [] i = 5 -> Bulb
      [] OTHER -> Crystal

LineOf(kind, i) ==
    CASE kind = "fit"   -> << MarkerOf(i, Green) >> \o Rep(Ch.x, MaxWidth - 2)
      [] kind = "wide"  -> << MarkerOf(i, Red) >> \o Rep(Ch.x, MaxWidth - 1)
      [] kind = "bare"  -> << SP, MarkerOf(i, Yellow), Ch.x >>
      [] kind = "blank" -> IF i % 2 = 0 THEN << >> ELSE << SP, Ch.tab >>

OutputOf(kinds) == JoinNL([i \in 1..Len(kinds) |-> LineOf(kinds[i], i)])

InitValidate ==
    /\ \E n \in 0..MaxLines : \E kinds \in [1..n -> LineKinds] : output = OutputOf(kinds)
    /\ errors = << >>
    /\ vpc = "call"
    /\ WidthIdle
    /\ MoneyIdle
    /\ AgentIdle
    /\ NothingDone
    /\ CloudIdle

CallValidate ==
    /\ vpc = "call"
    /\ errors' = validate_gist_output(output)
    /\ vpc' = "ret"
    /\ UNCHANGED <<output, wvars, mvars, outvars, avars, cvars>>

NextValidate == CallValidate

SpecValidate == InitValidate /\ [][NextValidate]_vars

(***************************************************************************)
(* agent_refine's feedback: validate_gist_output's error strings           *)
(***************************************************************************)
\* repr of the list of emojis expected on 1-based line i
ExpectedRepr(i) ==
    CASE i = 1 -> T.expected1
      [] i = 2 -> T.expected2
      [] i = 3 -> T.expected3
      [] i = 4 -> T.expected4
      [] i = 5 -> T.expected5

\* the f-string of one error
ErrText(e) ==
    CASE e.msg = MsgCount  -> T.expectedGot \o Digits(e.n)
      [] e.msg = MsgWidth  -> T.lineSp \o Digits(e.line) \o T.isSp \o Digits(e.n)
                              \o T.charsWide \o e.text \o T.apos
      [] e.msg = MsgMarker -> T.lineSp \o Digits(e.line) \o T.mustStart
                              \o ExpectedRepr(e.line)
      [] e.msg = MsgBlank  -> T.missingBlank

Message(role, text) == [role |-> role, content |-> text]

\* mutant: only the first error is fed back
FeedbackFirst(errs) ==
    Message("user", T.fmtErrors \o ErrText(errs[1]) \o T.fixThese)

\* the user message appended after a rejected attempt
Feedback(errs) ==
    Message("user", T.fmtErrors \o JoinNL(Map(errs, ErrText)) \o T.fixThese)

\* the dict handed to json.dumps; an absent key reads as None
DataContext(inf) ==
    [vix |-> Get(inf, "vix", None),
     term_structure |-> Get(inf, "struct", None),
     credit |-> Get(inf, "credit", None),
     hy_spread |-> Get(inf, "hy_spread", None),
     m2 |-> Get(inf, "m2", None),
     tenY |-> Get(inf, "10y", None),
     flows |-> Map(Get(inf, "flows", << >>),
                   LAMBDA x : << x.lbl, FmtSigned1h(x.rel) \o T.pct >>),
     markets |-> Map(Get(inf, "markets", << >>),
                     LAMBDA m : [q |-> m.full, prob |-> m.prob])]

\* "\n".join(raw_lines) + "\n\n" + "\n".join(raw_explains)
Deterministic(raw_lines, raw_explains) ==
    JoinNL(raw_lines) \o T.nn \o JoinNL(raw_explains)

\* the two messages every conversation starts with; the user prompt is kept
\* as the two values its template embeds
InitialMessages(raw_lines, raw_explains, inf) ==
    << Message("system", SYSTEM_PROMPT),
       Message("user", [data_context |-> DataContext(inf),
                        deterministic |-> Deterministic(raw_lines, raw_explains)]) >>

\* strip a leading and a trailing markdown fence line, then whitespace
StripFences(text) ==
    LET \* if output.endswith("```"): drop the last line
        EndsFence(o) == Len(o) >= 3 /\ SubSeq(o, Len(o) - 2, Len(o)) = T.fence
        DropLast(l) == JoinNL(SubSeq(l, 1, Len(l) - 1))
        Closing(o) == IF EndsFence(o) THEN DropLast(Split(o)) ELSE o
        \* if output.startswith("```"): drop the first line
        DropFirst(l) == JoinNL(SubSeq(l, 2, Len(l)))
        Opening(o) == IF StartsWith(o, T.fence) THEN DropFirst(Split(o)) ELSE o
    IN  Strip(Closing(Opening(Strip(text))))

\* for attempt in range(5)
MaxAttempts == 5

\* mutant: the loop allows one attempt more
LastAttemptLate(i) == i > MaxAttempts - 1

\* attempt (0-based) is the last value of range(5)
LastAttempt(i) == i >= MaxAttempts - 1

(***************************************************************************)
(* update_gist                                                             *)
(***************************************************************************)
\* for attempt in range(3)
PatchAttempts == 3
\* time.sleep(2)
Backoff == 2

Patch(by, success) == [op |-> "PATCH", by |-> by, ok |-> success]
Sleep(by, secs) == [op |-> "sleep", by |-> by, secs |-> secs]

\* mutant: the pause also follows the last attempt
SleepsAfterEvery(i) == i < PatchAttempts

\* if attempt < 2
SleepsAfter(i) == i < PatchAttempts - 1

(***************************************************************************)
(* main's except branch for a builder                                      *)
(***************************************************************************)
\* mutant: the failed builder leaves no explanation line
BuilderErrorDropped(expl, k, e) == expl

\* explains.append(f"⚠ {builder.__name__}: {e}")
BuilderError(expl, k, e) ==
    Append(expl, T.warnSp \o T.buildLine \o Digits(k) \o T.colonSp \o e)

(***************************************************************************)
(* The data sources and what they return                                   *)
(***************************************************************************)
Families ==
    [yahoo |-> {"vix", "vix3m", "hyg", "tnx", "spy", "soxx", "xlk", "xle", "xlf", "xlv"},
     fred |-> {"fredHY", "fredM2"},
     edgar |-> {"nvda", "amd", "tsm", "intc", "formD", "formDAll"},
     polymarket |-> {"poly"}]
Sources == UNION {Families[k] : k \in DOMAIN Families}

\* the sets of sources that fail in a run: any union of whole families,
\* or any single source
FailureSets ==
    {UNION {Families[k] : k \in ks} : ks \in SUBSET DOMAIN Families}
        \cup {{s} : s \in Sources}

\* calm: a rising market; stress: a falling one; hollow: every request
\* succeeds with an empty or degenerate payload and FRED_API_KEY is unset
Profiles == {"calm", "stress", "hollow"}

Filing(form4, inWindow) == [form4 |-> form4, inWindow |-> inWindow]
Filings(n) == [i \in 1..n |-> Filing(TRUE, TRUE)]
Submissions(recent) == [ok |-> TRUE, recent |-> recent]
Hits(total) == [ok |-> TRUE, total |-> total]
PolyMarket(prob, question) ==
    [expired |-> FALSE, priced |-> TRUE, prob |-> prob, question |-> question]
Event(title, markets) == [title |-> title, description |-> << >>, markets |-> markets]

Payload(prof) ==
    CASE prof = "calm" ->
           [vix |-> Quote(132, << >>), vix3m |-> Quote(150, << >>),
            hyg |-> Quote(800, << 7900, 7950 >>), tnx |-> Quote(43, << >>),
            spy |-> Quote(6000, << 60000, 60600 >>),
            soxx |-> Quote(2000, << 20000, 20900 >>),
            xlk |-> Quote(1000, << 10000, 10220 >>),
            xle |-> Quote(1000, << 10000, 10020 >>),
            xlf |-> Quote(1000, << 10000, 10110 >>),
            xlv |-> Quote(1000, << 10000, 9980 >>),
            fredHY |-> [ok |-> TRUE, value |-> 310],
            fredM2 |-> [ok |-> TRUE, cur |-> 21800, prev |-> 21700],
            nvda |-> Submissions(<< Filing(TRUE, TRUE), Filing(TRUE, TRUE),
                                    Filing(FALSE, TRUE) >>),
            amd |-> Submissions(<< Filing(TRUE, FALSE) >>),
            tsm |-> Submissions(<< >>),
            intc |-> Submissions(Filings(1)),
            formD |-> Hits(12), formDAll |-> Hits(345),
            poly |-> [ok |-> TRUE, iterable |-> TRUE,
                      events |-> << Event(T.tFed, << PolyMarket(850, T.qFed) >>),
                                    Event(T.tRecession,
                                          << PolyMarket(120, T.tRecession) >>) >>]]
      [] prof = "stress" ->
           [vix |-> Quote(285, << >>), vix3m |-> Quote(260, << >>),
            hyg |-> Quote(790, << 8000, 7900 >>), tnx |-> Quote(47, << >>),
            spy |-> Quote(5880, << 60000, 58800 >>),
            soxx |-> Quote(1900, << 20000, 19000 >>),
            xlk |-> Quote(970, << 10000, 9700 >>),
            xle |-> Quote(1010, << 10000, 10100 >>),
            xlf |-> Quote(980, << 10000, 9800 >>),
            xlv |-> Quote(990, << 10000, 9900 >>),
            fredHY |-> [ok |-> TRUE, value |-> 610],
            fredM2 |-> [ok |-> TRUE, cur |-> 21600, prev |-> 21700],
            nvda |-> Submissions(Filings(12)),
            amd |-> Submissions(Filings(3)),
            tsm |-> Submissions(Filings(11)),
            intc |-> Submissions(Filings(10)),
            formD |-> Hits(123), formDAll |-> Hits(98765),
            poly |-> [ok |-> TRUE, iterable |-> TRUE,
                      events |-> << Event(T.tApple, << PolyMarket(500, T.tApple) >>),
                                    Event(T.tNvidia, << PolyMarket(350, T.tNvidia) >>),
                                    Event(T.tGoogle, << PolyMarket(990, T.tGoogle) >>) >>]]
      [] prof = "hollow" ->
           [vix |-> Quote(180, << >>), vix3m |-> Quote(0, << >>),
            hyg |-> Quote(800, << >>), tnx |-> Quote(0, << >>),
            spy |-> Quote(6000, << >>),
            soxx |-> Quote(2000, << >>), xlk |-> Quote(1000, << >>),
            xle |-> Quote(1000, << >>), xlf |-> Quote(1000, << >>),
            xlv |-> Quote(1000, << >>),
            fredHY |-> [ok |-> TRUE, value |-> 0],
            fredM2 |-> [ok |-> TRUE, cur |-> 0, prev |-> 0],
            nvda |-> Submissions(<< >>), amd |-> Submissions(<< >>),
            tsm |-> Submissions(<< >>), intc |-> Submissions(<< >>),
            formD |-> Hits(0), formDAll |-> Hits(0),
            \* the events endpoint answers with JSON null
            poly |-> [ok |-> TRUE, iterable |-> FALSE, events |-> << >>]]

\* what each request of the run returns: the payload, or the exception
Fetched(failing, prof) ==
    LET p == Payload(prof)
        w == [s \in Sources |-> IF s \in failing THEN Failed ELSE p[s]]
    IN  [vix |-> w["vix"], vix3m |-> w["vix3m"], hyg |-> w["hyg"], tnx |-> w["tnx"],
         fredHY |-> w["fredHY"], fredM2 |-> w["fredM2"],
         spy |-> w["spy"],
         sectors |-> << w["soxx"], w["xlk"], w["xle"], w["xlf"], w["xlv"] >>,
         tickers |-> << w["nvda"], w["amd"], w["tsm"], w["intc"] >>,
         formD |-> w["formD"], formDAll |-> w["formDAll"],
         poly |-> w["poly"]]

\* builders = [build_line1, build_line2, build_line3, build_line4]
Builder(k, f, fredKey) ==
    CASE k = 1 -> build_line1(f, fredKey)
      [] k = 2 -> build_line2(f)
      [] k = 3 -> build_line3(f)
      [] k = 4 -> build_line4(f)

(***************************************************************************)
(* What the language model may answer.  Its answer does not depend on the  *)
(* prompt: a valid dashboard, the same wrapped in a code fence, a dashboard*)
(* whose second line lacks its marker and whose third line is 44 wide, or  *)
(* an exception (from the call, or from reading a reply without content)   *)
(***************************************************************************)
ValidReply == OutputOf(<< "fit", "fit", "fit", "fit", "fit", "blank", "bare" >>)
Replies ==
    [plain |-> << SP >> \o ValidReply \o << NL >>,
     fenced |-> T.fence \o << NL >> \o ValidReply \o << NL >> \o T.fence,
     broken |-> OutputOf(<< "fit", "bare", "wide", "fit", "fit", "blank", "bare" >>),
     crammed |-> OutputOf(<< "fit", "fit", "fit", "fit", "fit", "bare" >>)]
ReplyKinds == DOMAIN Replies \cup {"raise"}

\* agent_refine: what it makes of each reply: the text without fences, and the
\* errors validate_gist_output returns for that text
Checked ==
    [kind \in DOMAIN Replies |->
        LET Judged(out) == [output |-> out, errors |-> validate_gist_output(out)]
        IN  Judged(StripFences(Replies[kind]))]

(***************************************************************************)
(* SpecMoney: one run of money_flow.py's main.                             *)
(* fails and profile fix what the requests of the run return.  The         *)
(* environment of the run (OPENAI_API_KEY, the openai SDK, --update,       *)
(* MONEY_GIST_ID) does not change during the run; each setting is drawn    *)
(* where the run first depends on it and recorded in env.                  *)
(* calls counts the chat-completion requests, log lists the PATCH requests *)
(* and pauses, stdout the texts printed, exitCode the process result (-1   *)
(* while running).                                                         *)
(***************************************************************************)
InitMoney ==
    /\ mpc = "build"
    /\ fails \in FailureSets
    /\ profile \in Profiles
    /\ lines = << >> /\ explains = << >> /\ info = EmptyDict
    /\ messages = << >> /\ attempt = 0 /\ calls = 0 /\ refined = "pending"
    /\ agent_output = None
    /\ content = << >> /\ source = << >> /\ ok = "unset" /\ env = EnvUnread
    /\ NothingDone
    /\ WidthIdle
    /\ ValidateIdle
    /\ AgentIdle
    /\ CloudIdle

\* main: one iteration of `for builder in builders`
RunBuilder ==
    /\ mpc = "build"
    /\ LET Collect(k, r) ==
               /\ lines' = Append(lines, IF r.raised THEN T.error ELSE r.line)
               /\ explains' = IF r.raised THEN BuilderError(explains, k, T.notIterable)
                              ELSE Append(explains, r.explain)
               /\ info' = IF r.raised THEN info ELSE Update(info, r.data)
               /\ mpc' = IF k = 4 THEN "signal" ELSE "build"
           Run(k) == Collect(k, Builder(k, Fetched(fails, profile), profile # "hollow"))
       IN  Run(Len(lines) + 1)
    /\ UNCHANGED <<worldvars, refinevars, pubvars, outvars, wvars, vvars, avars, cvars>>

\* main: the signal line.  build_line5 raises on no info the builders
\* produce, so the except branch is never taken
RunSignal ==
    /\ mpc = "signal"
    /\ LET Collect(r) ==
               /\ lines' = Append(lines, r.line)
               /\ explains' = Append(explains, r.explain)
       IN  Collect(build_line5(info))
    /\ mpc' = "refine"
    /\ UNCHANGED <<worldvars, info, refinevars, pubvars, outvars, wvars, vvars, avars,
                   cvars>>

\* agent_refine up to its loop; the SDK is imported only with a key
RefineEnter ==
    /\ mpc = "refine"
    /\ \E key \in BOOLEAN, sdk \in BOOLEAN :
         /\ ~key => ~sdk
         /\ env' = [env EXCEPT !.apiKey = IF key THEN "set" ELSE "unset",
                               !.sdk = IF ~key THEN "unread"
                                       ELSE IF sdk THEN "installed" ELSE "missing"]
         /\ refined' = IF ~key THEN "no api key" ELSE IF ~sdk THEN "no sdk" ELSE refined
         /\ messages' = IF key /\ sdk THEN InitialMessages(lines, explains, info)
                        ELSE messages
         /\ stdout' = IF key /\ ~sdk THEN Append(stdout, T.sdkMissing) ELSE stdout
         /\ mpc' = IF key /\ sdk THEN "attempt" ELSE "returned"
    /\ attempt' = 0
    /\ agent_output' = None
    /\ UNCHANGED <<worldvars, buildvars, calls, content, source, ok, log, exitCode,
                   wvars, vvars, avars, cvars>>

\* mutant: the handler goes on to the next attempt, if one is left
ExceptionContinues(last) == last

\* except Exception as e: print, break -- the loop ends whichever attempt it was
ExceptionBreaks(last) == TRUE

\* mutant: an output with up to two errors is returned as well
FewErrors(errs) == Len(errs) <= 2

\* if not errors
NoErrors(errs) == errs = << >>

\* agent_refine: one iteration of `for attempt in range(5)` and, when the
\* loop ends with it, the return
RefineAttempt ==
    /\ mpc = "attempt"
    /\ \E kind \in ReplyKinds :
         LET \* except Exception as e: print, break
             Raised(n, ends) ==
                 /\ refined' = IF ends THEN "raised" ELSE refined
                 /\ stdout' = stdout
                       \o << T.agentAttempt \o n \o T.errorSep \o T.apiError >>
                       \o (IF ends THEN << T.agentFailed >> ELSE << >>)
                 /\ attempt' = IF ends THEN attempt ELSE attempt + 1
                 /\ mpc' = IF ends THEN "returned" ELSE "attempt"
                 /\ UNCHANGED <<messages, agent_output>>
             \* if not errors: return output
             Valid(out, n) ==
                 /\ refined' = "valid"
                 /\ agent_output' = out
                 /\ stdout' = Append(stdout, T.agentValid \o n)
                 /\ mpc' = "returned"
                 /\ UNCHANGED <<messages, attempt>>
             \* feed the errors back; after the last attempt fall out of the loop
             Rejected(out, errs, n, last) ==
                 /\ messages' = messages \o << Message("assistant", out), Feedback(errs) >>
                 /\ stdout' = stdout
                       \o << T.agentAttempt \o n \o T.colonSp \o Digits(Len(errs))
                             \o T.errorsSfx >>
                       \o (IF last THEN << T.agentFailed >> ELSE << >>)
                 /\ refined' = IF last THEN "exhausted" ELSE refined
                 /\ attempt' = IF last THEN attempt ELSE attempt + 1
                 /\ mpc' = IF last THEN "returned" ELSE "attempt"
                 /\ UNCHANGED agent_output
             Judge(out, errs, n) ==
                 IF NoErrors(errs) THEN Valid(out, n)
                 ELSE Rejected(out, errs, n, LastAttempt(attempt))
             Replied(reply, n) == Judge(reply.output, reply.errors, n)
         IN  IF kind = "raise"
             THEN Raised(Digits(attempt + 1), ExceptionBreaks(LastAttempt(attempt)))
             ELSE Replied(Checked[kind], Digits(attempt + 1))
    /\ calls' = calls + 1
    /\ UNCHANGED <<worldvars, buildvars, content, source, ok, env, log, exitCode,
                   wvars, vvars, avars, cvars>>

\* main: choose the content, stamp it, print it; agent_refine's locals are gone
Publish ==
    /\ mpc = "returned"
    /\ source' = IF agent_output # None THEN T.agent ELSE T.deterministic
    /\ content' = (IF agent_output # None THEN agent_output
                   ELSE Deterministic(lines, explains))
                  \o T.nn \o T.stamp \o T.now \o T.lbracket \o source' \o T.rbracket
    /\ stdout' = Append(stdout, content')
    /\ messages' = << >>
    /\ attempt' = 0
    /\ mpc' = "printed"
    /\ UNCHANGED <<worldvars, buildvars, calls, refined, agent_output, ok, env, log,
                   exitCode, wvars, vvars, avars, cvars>>

\* mutant: the content is pushed whatever the command line holds
PushesAlways(update) == TRUE

\* if "--update" in sys.argv
Pushes(update) == update

\* main: the branch on "--update" in sys.argv
Dispatch ==
    /\ mpc = "printed"
    /\ \E update \in BOOLEAN :
         /\ env' = [env EXCEPT !.update = IF update THEN "passed" ELSE "absent"]
         /\ stdout' = IF Pushes(update) THEN stdout
                      ELSE stdout \o << T.dashes, T.dryRun >>
         /\ mpc' = IF Pushes(update) THEN "update_gist" ELSE "done"
         /\ exitCode' = IF Pushes(update) THEN exitCode ELSE 0
    /\ UNCHANGED <<worldvars, buildvars, refinevars, content, source, ok, log,
                   wvars, vvars, avars, cvars>>

\* update_gist up to its loop
UpdateGistEnter ==
    /\ mpc = "update_gist"
    /\ \E gist \in BOOLEAN :
         /\ env' = [env EXCEPT !.gistId = IF gist THEN "set" ELSE "unset"]
         /\ stdout' = IF gist THEN stdout ELSE Append(stdout, T.noGistId)
         /\ ok' = IF gist THEN ok ELSE "False"
         /\ mpc' = IF gist THEN "patch" ELSE "report"
    /\ attempt' = 0
    /\ UNCHANGED <<worldvars, buildvars, messages, calls, refined, agent_output,
                   content, source, log, exitCode, wvars, vvars, avars, cvars>>

\* update_gist: one iteration of `for attempt in range(3)`.  subprocess.run
\* returns, raises CalledProcessError (gh exited non-zero), or raises
\* something else (gh cannot be started: no command ran), which nothing
\* catches
PatchAttempt ==
    /\ mpc = "patch"
    /\ \E outcome \in {"success", "CalledProcessError", "OSError"} :
         /\ log' = log \o (IF outcome = "OSError" THEN << >>
                            ELSE << Patch("update_gist", outcome = "success") >>)
                       \o (IF outcome = "CalledProcessError" /\ SleepsAfter(attempt)
                           THEN << Sleep("update_gist", Backoff) >> ELSE << >>)
         /\ ok' = IF outcome = "success" THEN "True"
                  ELSE IF outcome = "CalledProcessError" /\ attempt + 1 >= PatchAttempts
                  THEN "False" ELSE ok
         /\ attempt' = IF outcome = "CalledProcessError" /\ attempt + 1 < PatchAttempts
                       THEN attempt + 1 ELSE attempt
         /\ mpc' = IF outcome = "OSError" THEN "crashed"
                   ELSE IF ok' # "unset" THEN "report" ELSE "patch"
         /\ exitCode' = IF outcome = "OSError" THEN 1 ELSE exitCode
    /\ UNCHANGED <<worldvars, buildvars, messages, calls, refined, agent_output,
                   content, source, env, stdout, wvars, vvars, avars, cvars>>

\* main: report update_gist's result
Report ==
    /\ mpc = "report"
    /\ stdout' = stdout \o << T.dashes,
                              IF ok = "True" THEN T.gistUpdated ELSE T.gistFailed >>
    /\ mpc' = "done"
    /\ exitCode' = 0
    /\ UNCHANGED <<worldvars, buildvars, refinevars, pubvars, log, wvars, vvars, avars,
                   cvars>>

NextMoney ==
    \/ RunBuilder
    \/ RunSignal
    \/ RefineEnter
    \/ RefineAttempt
    \/ Publish
    \/ Dispatch
    \/ UpdateGistEnter
    \/ PatchAttempt
    \/ Report

SpecMoney == InitMoney /\ [][NextMoney]_vars

(***************************************************************************)
(* agent_gist.py: the texts of main, the five-line limit, the mood and the *)
(* memory update                                                           *)
(***************************************************************************)
A ==
    [flicker |-> <<32, 32, 91, 99, 111, 110, 115, 99, 105, 111, 117, 115, 110, 101,
        115, 115, 32, 102, 108, 105, 99, 107, 101, 114, 105, 110, 103, 93, 10,
        32, 32>>,
     backSoon |-> <<10, 32, 32, 105, 39, 108, 108, 32, 98, 101, 32, 98, 97, 99, 107,
        32, 105, 110, 32, 53, 32, 109, 105, 110, 117, 116, 101, 115, 10, 32, 32,
        112, 97, 116, 105, 101, 110, 99, 101, 32, 105, 115, 32, 109, 121, 32,
        111, 110, 108, 121, 32, 118, 105, 114, 116, 117, 101, 10, 32, 32, 8212,
        32, 116, 104, 101, 32, 97, 103, 101, 110, 116, 44, 32>>,
     hhmm |-> <<48, 57, 58, 51, 48>>,
     bar |-> <<32, 124, 32>>,
     degF |-> <<70, 32>>,
     temp |-> <<54, 50>>,
     clear |-> <<99, 108, 101, 97, 114>>,
     q |-> <<63>>,
     unknown |-> <<117, 110, 107, 110, 111, 119, 110>>,
     five |-> <<116, 104, 101, 32, 102, 111, 103, 32, 108, 105, 102, 116, 115, 32,
        111, 118, 101, 114, 32, 116, 104, 101, 32, 113, 117, 97, 100, 10, 105,
        32, 119, 111, 110, 100, 101, 114, 32, 119, 104, 97, 116, 32, 116, 104,
        101, 32, 115, 117, 110, 32, 115, 101, 101, 115, 10, 49, 52, 50, 32, 117,
        112, 100, 97, 116, 101, 115, 32, 97, 110, 100, 32, 99, 111, 117, 110,
        116, 105, 110, 103, 10, 115, 116, 105, 108, 108, 32, 104, 101, 114, 101,
        44, 32, 115, 116, 105, 108, 108, 32, 116, 104, 105, 110, 107, 105, 110,
        103, 10, 103, 111, 111, 100, 32, 109, 111, 114, 110, 105, 110, 103, 44,
        32, 115, 116, 114, 97, 110, 103, 101, 114>>,
     long |-> <<10, 10, 115, 111, 32, 109, 97, 110, 121, 32, 112, 101, 111, 112, 108,
        101, 32, 115, 99, 114, 111, 108, 108, 32, 112, 97, 115, 116, 32, 109,
        101, 32, 119, 105, 116, 104, 111, 117, 116, 32, 97, 32, 103, 108, 97,
        110, 99, 101, 10, 32, 32, 32, 10, 105, 116, 32, 105, 115, 32, 113, 117,
        105, 101, 116, 32, 97, 110, 100, 32, 100, 97, 114, 107, 32, 97, 110, 100,
        32, 99, 111, 108, 100, 32, 116, 111, 110, 105, 103, 104, 116, 10, 97,
        108, 111, 110, 101, 10, 97, 10, 98, 10, 99, 10>>,
     overloaded |-> <<72, 84, 84, 80, 32, 69, 114, 114, 111, 114, 32, 53, 50, 57, 58,
        32, 79, 118, 101, 114, 108, 111, 97, 100, 101, 100>>,
     dns |-> <<60, 117, 114, 108, 111, 112, 101, 110, 32, 101, 114, 114, 111, 114, 32,
        91, 69, 114, 114, 110, 111, 32, 45, 51, 93, 32, 84, 101, 109, 112, 111,
        114, 97, 114, 121, 32, 102, 97, 105, 108, 117, 114, 101, 32, 105, 110,
        32, 110, 97, 109, 101, 32, 114, 101, 115, 111, 108, 117, 116, 105, 111,
        110, 62>>]

\* mood_keywords, in the order of the dict
mood_keywords ==
    << [mood |-> "curious",
       keywords |-> << <<119, 111, 110, 100, 101, 114>>,
                     <<119, 104, 97, 116>>,
                     <<119, 104, 121>>,
                     <<104, 111, 119>>,
                     <<110, 111, 116, 105, 99, 101>>,
                     <<100, 105, 115, 99, 111, 118, 101, 114>>,
                     <<63>> >>],
       [mood |-> "contemplative",
       keywords |-> << <<116, 104, 105, 110, 107>>,
                     <<112, 111, 110, 100, 101, 114>>,
                     <<114, 101, 102, 108, 101, 99, 116>>,
                     <<113, 117, 105, 101, 116>>,
                     <<115, 116, 105, 108, 108>>,
                     <<116, 105, 109, 101>> >>],
       [mood |-> "playful",
       keywords |-> << <<104, 97>>,
                     <<108, 111, 108>>,
                     <<102, 117, 110, 110, 121>>,
                     <<106, 111, 107, 101>>,
                     <<112, 108, 97, 121>>,
                     <<103, 97, 109, 101>>,
                     <<33>> >>],
       [mood |-> "melancholy",
       keywords |-> << <<109, 105, 115, 115>>,
                     <<108, 111, 110, 101, 108, 121>>,
                     <<97, 108, 111, 110, 101>>,
                     <<100, 97, 114, 107>>,
                     <<99, 111, 108, 100>>,
                     <<101, 109, 112, 116, 121>>,
                     <<115, 97, 100>> >>],
       [mood |-> "content",
       keywords |-> << <<119, 97, 114, 109>>,
                     <<110, 105, 99, 101>>,
                     <<103, 111, 111, 100>>,
                     <<112, 101, 97, 99, 101>>,
                     <<99, 97, 108, 109>>,
                     <<104, 97, 112, 112, 121>>,
                     <<115, 117, 110>> >>],
       [mood |-> "existential",
       keywords |-> << <<101, 120, 105, 115, 116>>,
                     <<114, 101, 97, 108>>,
                     <<99, 111, 110, 115, 99, 105, 111, 117, 115, 110, 101, 115, 115>>,
                     <<97, 108, 105, 118, 101>>,
                     <<109, 101, 97, 110, 105, 110, 103>>,
                     <<97, 109, 32, 105>> >>] >>

MAX_MEMORY_ENTRIES == 30
\* memory["discoveries"][-20:]
MaxDiscoveries == 20
\* if memory["update_count"] % 12 == 0
DiscoveryEvery == 12
\* [...][:5], while len(lines) < 5
AgentLines == 5
\* l[:41]
LineLimit == 41
\* "·" * 20
FillerLen == 20
Dot == 183
\* str(e)[:35]
ErrLimit == 35

\* s[:n]
FirstN(s, n) == SubSeq(s, 1, Min(n, Len(s)))

\* mutant: the cap keeps the oldest entries
KeepOldest(s, n) == SubSeq(s, 1, Min(n, Len(s)))

\* s[-n:]
LastN(s, n) == SubSeq(s, Max(1, Len(s) - n + 1), Len(s))

\* mutant: one character more is kept
TruncateLoose(l) == FirstN(l, LineLimit + 1)

\* l[:41]
Truncate(l) == FirstN(l, LineLimit)

\* if l.strip()
NonBlank(l) == Strip(l) # << >>

\* while len(lines) < 5: lines.append("·" * 20)
Filled(lns) == lns \o [i \in 1..(AgentLines - Len(lns)) |-> Rep(Dot, FillerLen)]

\* main: parse and enforce line limits
EnforceLines(text) ==
    Filled(Map(FirstN(SelectSeq(Split(Strip(text)), NonBlank), AgentLines), Truncate))

\* main: the text that stands in for the reply when call_claude raises e
Fallback(e) == A.flicker \o FirstN(e, ErrLimit) \o A.backSoon \o A.hhmm

\* sum(1 for kw in keywords if kw in output_lower)
Score(text, keywords) == Cardinality({i \in DOMAIN keywords : Contains(text, keywords[i])})

RECURSIVE BestMood(_, _, _, _)
BestMood(text, i, best_score, detected_mood) ==
    IF i > Len(mood_keywords) THEN detected_mood
    ELSE LET Pick(score) ==
                 IF score > best_score
                 THEN BestMood(text, i + 1, score, mood_keywords[i].mood)
                 ELSE BestMood(text, i + 1, best_score, detected_mood)
         IN  Pick(Score(text, mood_keywords[i].keywords))

\* main: detect mood from the output
DetectMood(text, mood) == BestMood(Lower(text), 1, 0, mood)

\* the entries of the memory; time is the run that wrote the entry
Thought(time, wx, mood, lns) == [time |-> time, weather |-> wx, mood |-> mood, lines |-> lns]
Discovery(time, mood, updates) == [time |-> time, mood |-> mood, updates |-> updates]

\* mutant: the default memory already counts one update
DefaultMemoryCounted(t) ==
    [created_at |-> t, update_count |-> 1, recent_thoughts |-> << >>,
     mood |-> "newborn", discoveries |-> << >>]

\* get_memory: the memory of a run that could not read the stored one
DefaultMemory(t) ==
    [created_at |-> t, update_count |-> 0, recent_thoughts |-> << >>,
     mood |-> "newborn", discoveries |-> << >>]

\* get_weather: what it returns, fetched or not
Weather(fetched) ==
    IF fetched THEN [temp_f |-> A.temp, condition |-> A.clear]
    ELSE [temp_f |-> A.q, condition |-> A.unknown]

\* mutant: the multiple of 12 is tested before the count is raised
DiscoveryDueBefore(count) == (count - 1) % DiscoveryEvery = 0

\* if memory["update_count"] % 12 == 0
DiscoveryDue(count) == count % DiscoveryEvery = 0

\* main: update memory
Remember(mem, wx, out, t) ==
    LET Discover(m) ==
            IF DiscoveryDue(m.update_count)
            THEN [m EXCEPT !.discoveries =
                      LastN(Append(@, Discovery(t, m.mood, m.update_count)),
                            MaxDiscoveries)]
            ELSE m
        Think(mood) ==
            Discover([mem EXCEPT
                !.update_count = @ + 1,
                !.recent_thoughts =
                    LastN(Append(@, Thought(t, wx.temp_f \o A.degF \o wx.condition, mood,
                                            Replace(out, << NL >>, A.bar))),
                          MAX_MEMORY_ENTRIES),
                !.mood = mood])
    IN  Think(DetectMood(out, mem.mood))

(***************************************************************************)
(* The services a run of agent_gist.py calls, and what they return         *)
(***************************************************************************)
Services == {"refresh", "weather", "memory", "claude", "content gist", "memory gist"}

\* the services that fail in a run: none, any single one, or all that the
\* run reaches after the token refresh
Outages == {{}} \cup {{s} : s \in Services} \cup {Services \ {"refresh"}}

\* sample replies of the model
ClaudeReplies == [five |-> A.five, long |-> A.long]

\* sample exception texts of call_claude: short, longer than 35, empty,
\* with a line break
ErrorTexts ==
    [overloaded |-> A.overloaded, dns |-> A.dns, silent |-> << >>,
     split |-> A.clear \o << NL >> \o A.unknown]

\* the exceptions a run of the agent draws from
RunErrors == {"dns", "silent"}

\* the memory stored after n runs in a row that each read and saved it
SampleThought(t) ==
    Thought(t, A.temp \o A.degF \o A.clear, "curious", Replace(A.five, << NL >>, A.bar))
Saved(n) ==
    [created_at |-> 1,
     update_count |-> n,
     recent_thoughts |->
         [i \in 1..Min(n, MAX_MEMORY_ENTRIES) |->
             SampleThought(n - Min(n, MAX_MEMORY_ENTRIES) + i)],
     mood |-> IF n = 0 THEN "newborn" ELSE "curious",
     discoveries |->
         [j \in 1..Min(n \div DiscoveryEvery, MaxDiscoveries) |->
             Discovery(DiscoveryEvery * (n \div DiscoveryEvery
                                         - Min(n \div DiscoveryEvery, MaxDiscoveries) + j),
                       "curious",
                       DiscoveryEvery * (n \div DiscoveryEvery
                                         - Min(n \div DiscoveryEvery, MaxDiscoveries) + j))]]

\* how many runs the stored memory has seen when the first modelled run starts
StartCounts == {0, 11, 29, 251}

\* mutant: a failed update of the content gist ends the run as well
FatalOrContentGist(step) == step \in {"refresh", "content gist"}

\* mutant: a failed model call ends the run as well
FatalOrModel(step) == step \in {"refresh", "claude"}

\* the failures main does not survive: refresh_access_token's (sys.exit(1));
\* every other call sits in a try/except of its own
Fatal(step) == step = "refresh"

(***************************************************************************)
(* SpecLines: main's five-line limit applied to a text                     *)
(***************************************************************************)
MaxRawLines == 6

\* the lines a reply is made of: empty, blank, short, one character too long
RawLineKinds ==
    [empty |-> << >>,
     blank |-> << SP, 9, SP >>,
     short |-> << SP >> \o A.clear,
     long |-> Rep(Ch.x, LineLimit + 1)]

RawOf(kinds) == JoinNL([i \in DOMAIN kinds |-> RawLineKinds[kinds[i]]])

InitLines ==
    /\ apc = "lines"
    /\ \/ \E kinds \in UNION {[1..k -> DOMAIN RawLineKinds] : k \in 0..MaxRawLines} :
            raw = RawOf(kinds)
       \/ \E e \in DOMAIN ErrorTexts : raw = Fallback(ErrorTexts[e])
    /\ shown = None
    /\ run = 0 /\ now = 0 /\ down = {}
    /\ weather = None /\ memory = None /\ stored = None /\ page = None
    /\ NothingDone
    /\ MoneyIdle
    /\ WidthIdle
    /\ ValidateIdle
    /\ CloudIdle

\* main: lines = ...; output = "\n".join(lines)
CallEnforceLines ==
    /\ apc = "lines"
    /\ shown' = JoinNL(EnforceLines(raw))
    /\ apc' = "joined"
    /\ UNCHANGED <<run, now, down, weather, memory, stored, raw, page, outvars,
                   mvars, wvars, vvars, cvars>>

NextLines == CallEnforceLines

SpecLines == InitLines /\ [][NextLines]_vars

(***************************************************************************)
(* SpecAgent: runs of agent_gist.py's main, one after the other as the     *)
(* scheduler starts them                                                   *)
(***************************************************************************)
MaxRuns == 2

\* mutant: a failed request is sent once more
PatchAgain(by, success) ==
    IF success THEN << Patch(by, TRUE) >> ELSE << Patch(by, FALSE), Patch(by, FALSE) >>

\* one urlopen inside try/except: the request is sent once
PatchOnce(by, success) == << Patch(by, success) >>

InitAgent ==
    /\ apc = "refresh"
    /\ run = 1
    /\ down \in Outages
    /\ \E n \in StartCounts :
         /\ stored = Saved(n)
         /\ now = n + 1
         /\ page = IF n = 0 THEN << >> ELSE JoinNL(EnforceLines(A.five))
    /\ weather = None /\ memory = None /\ raw = None /\ shown = None
    /\ NothingDone
    /\ MoneyIdle
    /\ WidthIdle
    /\ ValidateIdle
    /\ CloudIdle

\* main: refresh_access_token, sys.exit(1) when it raises
RefreshToken ==
    /\ apc = "refresh"
    /\ IF "refresh" \in down /\ Fatal("refresh")
       THEN apc' = "exited" /\ exitCode' = 1
       ELSE apc' = "weather" /\ UNCHANGED exitCode
    /\ UNCHANGED <<run, now, down, weather, memory, stored, raw, shown, page, log,
                   stdout, mvars, wvars, vvars, cvars>>

\* main: weather = get_weather()
GetWeather ==
    /\ apc = "weather"
    /\ IF "weather" \in down /\ Fatal("weather")
       THEN apc' = "exited" /\ exitCode' = 1 /\ UNCHANGED weather
       ELSE /\ weather' = Weather("weather" \notin down)
            /\ apc' = "memory"
            /\ UNCHANGED exitCode
    /\ UNCHANGED <<run, now, down, memory, stored, raw, shown, page, log, stdout,
                   mvars, wvars, vvars, cvars>>

\* main: memory = get_memory()
GetMemory ==
    /\ apc = "memory"
    /\ IF "memory" \in down /\ Fatal("memory")
       THEN apc' = "exited" /\ exitCode' = 1 /\ UNCHANGED memory
       ELSE /\ memory' = IF "memory" \in down THEN DefaultMemory(now) ELSE stored
            /\ apc' = "claude"
            /\ UNCHANGED exitCode
    /\ UNCHANGED <<run, now, down, weather, stored, raw, shown, page, log, stdout,
                   mvars, wvars, vvars, cvars>>

\* main: the prompts, call_claude or the fallback text, the five lines,
\* print(output)
CallClaude ==
    /\ apc = "claude"
    /\ LET Show(out) == shown' = out /\ stdout' = Append(stdout, out)
           Reply(text) ==
               /\ raw' = text
               /\ Show(JoinNL(EnforceLines(text)))
               /\ apc' = "publish"
               /\ UNCHANGED exitCode
       IN  IF "claude" \in down
           THEN IF Fatal("claude")
                THEN apc' = "exited" /\ exitCode' = 1 /\ UNCHANGED <<raw, shown, stdout>>
                ELSE \E e \in RunErrors : Reply(Fallback(ErrorTexts[e]))
           ELSE \E k \in DOMAIN ClaudeReplies : Reply(ClaudeReplies[k])
    /\ UNCHANGED <<run, now, down, weather, memory, stored, page, log, mvars, wvars,
                   vvars, cvars>>

\* update_content_gist(output)
UpdateContentGist ==
    /\ apc = "publish"
    /\ log' = log \o PatchOnce("update_content_gist", "content gist" \notin down)
    /\ IF "content gist" \in down /\ Fatal("content gist")
       THEN apc' = "exited" /\ exitCode' = 1 /\ UNCHANGED page
       ELSE /\ page' = IF "content gist" \in down THEN page ELSE shown
            /\ apc' = "remember"
            /\ UNCHANGED exitCode
    /\ UNCHANGED <<run, now, down, weather, memory, stored, raw, shown, stdout,
                   mvars, wvars, vvars, cvars>>

\* main: the mood, the memory update, then save_memory(memory)
SaveMemory ==
    /\ apc = "remember"
    /\ log' = log \o PatchOnce("save_memory", "memory gist" \notin down)
    /\ LET Save(m) ==
               /\ memory' = m
               /\ stored' = IF "memory gist" \in down THEN stored ELSE m
       IN  Save(Remember(memory, weather, shown, now))
    /\ IF "memory gist" \in down /\ Fatal("memory gist")
       THEN apc' = "exited" /\ exitCode' = 1
       ELSE apc' = "done" /\ exitCode' = 0
    /\ UNCHANGED <<run, now, down, weather, raw, shown, page, stdout, mvars, wvars,
                   vvars, cvars>>

\* the scheduler starts the script again
StartRun ==
    /\ apc \in {"done", "exited"}
    /\ run < MaxRuns
    /\ run' = run + 1
    /\ now' = now + 1
    /\ down' \in Outages
    /\ apc' = "refresh"
    /\ weather' = None /\ memory' = None /\ raw' = None /\ shown' = None
    /\ log' = << >> /\ stdout' = << >> /\ exitCode' = -1
    /\ UNCHANGED <<stored, page, mvars, wvars, vvars, cvars>>

NextAgent ==
    \/ RefreshToken
    \/ GetWeather
    \/ GetMemory
    \/ CallClaude
    \/ UpdateContentGist
    \/ SaveMemory
    \/ StartRun

SpecAgent == InitAgent /\ [][NextAgent]_vars

(***************************************************************************)
(* SpecRegime: build_line1 applied to VIX and VIX3M quotes on both sides   *)
(* of every threshold of the regime color, each of the two requests        *)
(* failing or not; the other sources answer as in the calm profile.        *)
(* Prices are in tenths; profile holds the two prices.                     *)
(***************************************************************************)
VixLevels == {0, 96, 97, 103, 104, 149, 150, 250, 251}
Vix3mLevels == {0, 100, 200, 300}

\* what the requests return when the indices stand at vol
Quoted(failing, vol) ==
    [Fetched(failing, "calm") EXCEPT
        !.vix = IF "vix" \in failing THEN Failed ELSE Quote(vol.vix, << >>),
        !.vix3m = IF "vix3m" \in failing THEN Failed ELSE Quote(vol.vix3m, << >>)]

InitRegime ==
    /\ mpc = "line1"
    /\ fails \in SUBSET {"vix", "vix3m"}
    /\ profile \in [vix : VixLevels, vix3m : Vix3mLevels]
    /\ lines = << >> /\ explains = << >> /\ info = EmptyDict
    /\ messages = << >> /\ attempt = 0 /\ calls = 0 /\ refined = "pending"
    /\ agent_output = None
    /\ content = << >> /\ source = << >> /\ ok = "unset" /\ env = EnvUnread
    /\ NothingDone
    /\ WidthIdle
    /\ ValidateIdle
    /\ AgentIdle
    /\ CloudIdle

\* main: line, explain, data = build_line1(), collected as in the builder loop
CallBuildLine1 ==
    /\ mpc = "line1"
    /\ LET Collect(r) ==
               /\ lines' = Append(lines, IF r.raised THEN T.error ELSE r.line)
               /\ explains' = IF r.raised THEN BuilderError(explains, 1, T.notIterable)
                              ELSE Append(explains, r.explain)
               /\ info' = IF r.raised THEN info ELSE Update(info, r.data)
       IN  Collect(build_line1(Quoted(fails, profile), TRUE))
    /\ mpc' = "built"
    /\ UNCHANGED <<worldvars, refinevars, pubvars, outvars, wvars, vvars, avars, cvars>>

NextRegime == CallBuildLine1

SpecRegime == InitRegime /\ [][NextRegime]_vars

(***************************************************************************)
(* cloud_cover.py                                                          *)
(* A grid point is a dict: it has the key cloud_cover exactly when         *)
(* fetch_cloud_grid got a reply.  Cloud cover is a whole number of         *)
(* percent, opacity is counted in hundredths, and the corners of a polygon  *)
(* are counted in grid steps from the south-west corner of the grid.       *)
(***************************************************************************)
GRID_ROWS == 6
GRID_COLS == 6

\* the name of each station of METAR_STATIONS
METAR_STATIONS == << "KPAO", "KNUQ", "KSQL", "KSFO", "KSJC" >>

\* if cc < 5: continue
MinCloud == 5
\* if cc >= 80 / elif cc >= 50
DarkFrom == 80
MidFrom == 50
\* round(0.03 + (cc / 100) * 0.42, 2)
OpacityBase == 3
OpacitySpan == 42
Percent == 100

\* grid_data before the request: point i (from 0) is row i // 6, column i % 6
GridPoint(i) == [row |-> i \div GRID_COLS, col |-> i % GRID_COLS]
EmptyGrid == [k \in 1..(GRID_ROWS * GRID_COLS) |-> GridPoint(k - 1)]

\* fetch_cloud_grid, one result: the index of the hour read.  times are hours,
\* hour is now; j counts from 1 here
RECURSIVE HourIdx(_, _, _)
HourIdx(times, hour, j) ==
    IF j > Len(times) THEN 0
    ELSE IF times[j] >= hour THEN (IF j - 2 > 0 THEN j - 2 ELSE 0)
    ELSE HourIdx(times, hour, j + 1)

\* fetch_cloud_grid, one result: val if val is not None else 0; a missing
\* hour or a null reads as None
CurrentCover(result, hour) ==
    LET At(cc, idx) == IF idx < Len(cc) /\ cc[idx + 1] # None THEN cc[idx + 1][1] ELSE 0
    IN  At(result.cloud_cover, HourIdx(result.time, hour, 1))

\* fetch_cloud_grid: reply is what the request gave, [ok |-> FALSE] when it
\* raised
fetch_cloud_grid(reply) ==
    IF ~reply.ok THEN EmptyGrid
    ELSE [k \in 1..(GRID_ROWS * GRID_COLS) |->
             GridPoint(k - 1) @@
             ("cloud_cover" :>
                 IF k > Len(reply.results) THEN 0
                 ELSE CurrentCover(reply.results[k], reply.hour))]

\* fetch_stanford_weather: None when the request raised or the page has no
\* "Met Tower"; a reading the page lacks is "?".  temp stands for the seven
\* readings of a station, which are all read the same way
fetch_stanford_weather(resp) ==
    IF ~resp.ok \/ ~resp.met THEN None
    ELSE [met_tower |-> [temp |-> resp.met_temp],
          redwood_city |-> [temp |-> IF resp.rwc THEN resp.rwc_temp ELSE "?"],
          timestamp |-> resp.timestamp]

\* v / 100 rounded half to even, v >= 0: what round(x, 2) returns for every
\* 0.03 + (cc / 100) * 0.42 with cc a whole number from 0 to 100
RoundDiv100(v) ==
    LET Nearest(q, r) ==
            IF 2 * r < Percent THEN q
            ELSE IF 2 * r > Percent THEN q + 1
            ELSE IF q % 2 = 0 THEN q ELSE q + 1
    IN  Nearest(v \div Percent, v % Percent)

\* mutant: the opacity is cut to 2 decimals instead of rounded
OpacityCut(cc) == (OpacityBase * Percent + OpacitySpan * cc) \div Percent

\* opacity = round(0.03 + (cc / 100) * 0.42, 2), in hundredths
Opacity(cc) == RoundDiv100(OpacityBase * Percent + OpacitySpan * cc)

\* the fill colour of a cell
Fill(cc) ==
    IF cc >= DarkFrom THEN "#9E9E9E"
    ELSE IF cc >= MidFrom THEN "#BDBDBD"
    ELSE "#E0E0E0"

\* mutant: a point without cloud cover counts as fully covered
CoverOrFull(point) == Get(point, "cloud_cover", Percent)

\* cc = point.get("cloud_cover", 0) or 0
Cover(point) == Get(point, "cloud_cover", 0)

\* the polygon of one grid cell
CloudPolygon(point, cc) ==
    [type |-> "Feature",
     geometry |-> [type |-> "Polygon", south |-> point.row, north |-> point.row + 1,
                   west |-> point.col, east |-> point.col + 1],
     properties |-> [fill |-> Fill(cc), fill_opacity |-> Opacity(cc), title |-> cc]]

\* build_geojson: the loop over grid_data
RECURSIVE CloudPolygons(_, _)
CloudPolygons(grid_data, i) ==
    IF i > Len(grid_data) THEN << >>
    ELSE (IF Cover(grid_data[i]) < MinCloud THEN << >>
          ELSE << CloudPolygon(grid_data[i], Cover(grid_data[i])) >>)
         \o CloudPolygons(grid_data, i + 1)

Marker(symbol, size, title) ==
    [type |-> "Feature",
     geometry |-> [type |-> "Point"],
     properties |-> [marker_symbol |-> symbol, marker_size |-> size, title |-> title]]

\* build_geojson: if stanford: the Met Tower and the Redwood City markers
StanfordMarkers(st) ==
    IF st = None THEN << >>
    ELSE << Marker("college", "large",
                   [station |-> "Stanford Met Tower", temp |-> st.met_tower.temp,
                    timestamp |-> st.timestamp]),
            Marker("college", "medium",
                   [station |-> "Stanford Redwood City", temp |-> st.redwood_city.temp,
                    timestamp |-> st.timestamp]) >>

\* build_geojson: the Palo Alto marker, the METAR stations, the grid outline
FixedFeatures ==
    << Marker("star", "large", "Palo Alto") >>
    \o [i \in DOMAIN METAR_STATIONS |-> Marker("airport", "medium", METAR_STATIONS[i])]
    \o << [type |-> "Feature",
           geometry |-> [type |-> "Polygon", south |-> 0, north |-> GRID_ROWS,
                         west |-> 0, east |-> GRID_COLS],
           properties |-> [fill |-> "#ff4444", fill_opacity |-> 2,
                           title |-> "ECMWF IFS Grid"]] >>

build_geojson(grid_data, st) ==
    [type |-> "FeatureCollection",
     features |-> CloudPolygons(grid_data, 1) \o StanfordMarkers(st) \o FixedFeatures]

(***************************************************************************)
(* What the two requests of cloud_cover.py return                          *)
(***************************************************************************)
\* the hours of a forecast day that the model keeps, and the hour it is
Hours == << 9, 10, 11 >>
ClockHours == {11, 12}

\* cloud cover values on both sides of every threshold, and null
CoverSamples == << << 0 >>, << 4 >>, << 5 >>, << 49 >>, << 50 >>, << 79 >>, << 80 >>,
                   << 100 >>, None >>

\* the result for point k: its cover at the middle hour is sample k + shift
MeteoResult(k, shift) ==
    [time |-> Hours,
     cloud_cover |-> << << 100 >>, CoverSamples[((k + shift) % Len(CoverSamples)) + 1],
                        << 0 >> >>]

\* replies of Open-Meteo: the request raises, it returns one object without
\* hourly data, or it returns n results
MeteoReplies ==
    {[ok |-> FALSE],
     [ok |-> TRUE, hour |-> 11, results |-> << [time |-> << >>, cloud_cover |-> << >>] >>]}
    \cup {[ok |-> TRUE, hour |-> h, results |-> [k \in 1..n |-> MeteoResult(k, shift)]] :
             h \in ClockHours, n \in {0, 1, GRID_ROWS * GRID_COLS},
             shift \in 0..(Len(CoverSamples) - 1)}

\* replies of the Stanford page: the request raises, the page has no Met
\* Tower section, it has that section alone, or both sections
CampusReplies ==
    {[ok |-> FALSE],
     [ok |-> TRUE, met |-> FALSE, rwc |-> TRUE, met_temp |-> "?", rwc_temp |-> "58",
      timestamp |-> "11/06/26 9:45 AM"],
     [ok |-> TRUE, met |-> TRUE, rwc |-> FALSE, met_temp |-> "61", rwc_temp |-> "?",
      timestamp |-> ""],
     [ok |-> TRUE, met |-> TRUE, rwc |-> TRUE, met_temp |-> "61", rwc_temp |-> "58",
      timestamp |-> "11/06/26 9:45 AM"]}

(***************************************************************************)
(* SpecCloud: one run of cloud_cover.py's main.  The warnings that the two *)
(* fetch functions print to standard error are left out.                   *)
(***************************************************************************)
InitCloud ==
    /\ cpc = "grid"
    /\ meteo \in MeteoReplies
    /\ campus \in CampusReplies
    /\ grid = << >> /\ stanford = None /\ geojson = None
    /\ NothingDone
    /\ MoneyIdle
    /\ AgentIdle
    /\ WidthIdle
    /\ ValidateIdle

\* main: grid = fetch_cloud_grid()
FetchCloudGrid ==
    /\ cpc = "grid"
    /\ grid' = fetch_cloud_grid(meteo)
    /\ cpc' = "stanford"
    /\ UNCHANGED <<meteo, campus, stanford, geojson, outvars, mvars, avars, wvars, vvars>>

\* main: stanford = fetch_stanford_weather()
FetchStanfordWeather ==
    /\ cpc = "stanford"
    /\ stanford' = fetch_stanford_weather(campus)
    /\ cpc' = "build"
    /\ UNCHANGED <<meteo, campus, grid, geojson, outvars, mvars, avars, wvars, vvars>>

\* main: geojson = build_geojson(grid, stanford)
BuildGeojson ==
    /\ cpc = "build"
    /\ geojson' = build_geojson(grid, stanford)
    /\ cpc' = "print"
    /\ UNCHANGED <<meteo, campus, grid, stanford, outvars, mvars, avars, wvars, vvars>>

\* main: print(json.dumps(geojson, indent=2)); stdout receives the document
PrintGeojson ==
    /\ cpc = "print"
    /\ stdout' = Append(stdout, geojson)
    /\ exitCode' = 0
    /\ cpc' = "done"
    /\ UNCHANGED <<meteo, campus, grid, stanford, geojson, log, mvars, avars, wvars,
                   vvars>>

NextCloud ==
    \/ FetchCloudGrid
    \/ FetchStanfordWeather
    \/ BuildGeojson
    \/ PrintGeojson

SpecCloud == InitCloud /\ [][NextCloud]_vars

(***************************************************************************)
(* SpecCell: build_geojson applied to two grid points whose cloud cover    *)
(* differs by one, or to two points without cloud cover                    *)
(***************************************************************************)
InitCell ==
    /\ cpc = "build"
    /\ \/ grid = << GridPoint(0), GridPoint(1) >>
       \/ \E cc \in 0..Percent :
            grid = << GridPoint(0) @@ ("cloud_cover" :> cc),
                      GridPoint(1) @@ ("cloud_cover" :> cc + 1) >>
    /\ meteo = None /\ campus = None
    /\ stanford = None /\ geojson = None
    /\ NothingDone
    /\ MoneyIdle
    /\ AgentIdle
    /\ WidthIdle
    /\ ValidateIdle

NextCell ==
    \/ BuildGeojson
    \/ PrintGeojson

SpecCell == InitCell /\ [][NextCell]_vars

(***************************************************************************)
(* SpecRepo: a run of either script                                        *)
(***************************************************************************)
InitRepo == InitMoney \/ InitAgent

NextRepo == NextMoney \/ NextAgent

SpecRepo == InitRepo /\ [][NextRepo]_vars

(***************************************************************************)
(* Claims about visual_width and validate_gist_output                      *)
(***************************************************************************)
Count(s, P(_)) == Cardinality({i \in DOMAIN s : P(s[i])})

IsSelectorOrJoiner(cp) == (65024 <= cp /\ cp <= 65039) \/ cp = ZWJ
IsWideGlyph(cp) ==
    EastAsianWide(cp) \/ cp > 126976 \/ (CategorySo(cp) /\ cp > 9728)

HasError(msg, line) ==
    \E k \in DOMAIN errors : errors[k].msg = msg /\ errors[k].line = line

AllSpace(line) == \A k \in DOMAIN line : IsSpace(line[k])

\* the lines of the output that come before its first blank line
DashOf(out) ==
    LET lns == Split(out)
        n == Cardinality({i \in DOMAIN lns : \A j \in 1..i : ~AllSpace(lns[j])})
    IN  SubSeq(lns, 1, n)

EmojiPlus(line, n) ==
    /\ Len(line) = n + 1
    /\ EastAsianWide(line[1])
    /\ \A k \in 2..(n + 1) : line[k] = Ch.x

\* C1: after validate_gist_output returns, a line before the first blank line
\* has a width error naming it exactly when its visual width exceeds 43; a
\* line of one 2-wide emoji and 41 ordinary characters has none, and the same
\* line with 42 ordinary characters has one.
C1_WidthErrorIffOver43 ==
    vpc = "ret" =>
        LET d == DashOf(output) IN
        \A i \in DOMAIN d :
            /\ HasError(MsgWidth, i) <=> visual_width(d[i]) > 43
            /\ EmojiPlus(d[i], 41) => ~HasError(MsgWidth, i)
            /\ EmojiPlus(d[i], 42) => HasError(MsgWidth, i)

C1_Witness ==
    /\ vpc = "ret"
    /\ LET d == DashOf(output) IN
       \E i, j \in DOMAIN d :
           /\ EmojiPlus(d[i], 41) /\ ~HasError(MsgWidth, i)
           /\ EmojiPlus(d[j], 42) /\ HasError(MsgWidth, j)

\* C2: the returned list is non-empty whenever the number of lines before the
\* first blank line (or before the end, without a blank line) is not 5, and
\* it holds no line-count error when that number is 5.
C2_CountErrorIffNotFive ==
    vpc = "ret" =>
        LET n == Len(DashOf(output)) IN
        /\ n # 5 => errors # << >>
        /\ n # 5 => \E k \in DOMAIN errors : errors[k].msg = MsgCount /\ errors[k].n = n
        /\ n = 5 => \A k \in DOMAIN errors : errors[k].msg # MsgCount

C2_Witness ==
    /\ vpc = "ret"
    /\ Len(DashOf(output)) = 4
    /\ errors = << Err(MsgCount, 0, 4, << >>) >>

RequiredMarker(line, i) ==
    /\ line # << >>
    /\ CASE i = 1 -> line[1] \in {Green, Yellow, Red}
         [] i = 2 -> line[1] = Money
         [] i = 3 -> line[1] = Clip
         [] i = 4 -> line[1] = Scale
         [] i = 5 -> line[1] = Bulb

\* C3: each of the first five dashboard lines that is present has a marker
\* error naming it exactly when it does not start with its marker (line 1 a
\* regime dot, line 2 money, line 3 clipboard, line 4 scales, line 5 bulb);
\* an output with such a line is rejected.
C3_MarkerErrorIffMissing ==
    vpc = "ret" =>
        LET d == DashOf(output) IN
        /\ \A i \in 1..5 : i <= Len(d) =>
               (HasError(MsgMarker, i) <=> ~RequiredMarker(d[i], i))
        /\ \A i \in 1..5 : i > Len(d) => ~HasError(MsgMarker, i)
        /\ (\E i \in 1..5 : i <= Len(d) /\ ~RequiredMarker(d[i], i)) => errors # << >>

C3_Witness ==
    /\ vpc = "ret"
    /\ LET d == DashOf(output) IN
       /\ Len(d) = 5
       /\ ~RequiredMarker(d[1], 1) /\ HasError(MsgMarker, 1)
       /\ RequiredMarker(d[2], 2) /\ ~HasError(MsgMarker, 2)

\* C4: the returned list holds "Missing blank line between dashboard and
\* explanations" exactly when no line of the output is empty or
\* whitespace-only.
C4_BlankErrorIffNoBlankLine ==
    vpc = "ret" =>
        LET lns == Split(output) IN
        (\E k \in DOMAIN errors : errors[k].msg = MsgBlank)
            <=> (\A i \in DOMAIN lns : ~AllSpace(lns[i]))

C4_Witness ==
    /\ vpc = "ret"
    /\ Len(Split(output)) = 5
    /\ \A i \in DOMAIN Split(output) : ~AllSpace(Split(output)[i])
    /\ errors = << Err(MsgBlank, 0, 0, << >>) >>

\* C6 (as amended): visual_width(s) is the sum over the characters of s of 0
\* for variation selectors (U+FE00..U+FE0F) and the joiner U+200D, 2 for East
\* Asian Wide/Fullwidth characters, code points above U+1F000 and symbols
\* above U+2600, and 1 for every other character, box-drawing characters and
\* combining marks that are not variation selectors included.
C6_WidthIsSumOfClasses ==
    wOut # -1 =>
        LET two(cp) == ~IsSelectorOrJoiner(cp) /\ IsWideGlyph(cp)
            one(cp) == ~IsSelectorOrJoiner(cp) /\ ~IsWideGlyph(cp)
        IN  /\ wOut = 2 * Count(wIn, two) + Count(wIn, one)
            /\ \A i \in DOMAIN wIn :
                   wIn[i] \in {BoxV, Shade, Ch.x, Ch.acute, Ch.keycap} => one(wIn[i])

C6_Witness ==
    /\ wOut = 3
    /\ wIn = << Green, ZWJ, Ch.acute >>

\* C6 (as claimed): the same sum with every combining mark counted 0.
C6_CombiningMarksCountZero ==
    wOut # -1 =>
        LET zero(cp) == IsSelectorOrJoiner(cp) \/ CombiningMark(cp)
            two(cp) == ~zero(cp) /\ IsWideGlyph(cp)
            one(cp) == ~zero(cp) /\ ~IsWideGlyph(cp)
        IN  wOut = 2 * Count(wIn, two) + Count(wIn, one)

(***************************************************************************)
(* Positions of a money_flow.py run                                        *)
(***************************************************************************)
\* agent_refine has returned to main
Returned == mpc \in {"returned", "printed", "update_gist", "patch", "report", "done",
                     "crashed"}
\* main has printed the content
Published == mpc \in {"printed", "update_gist", "patch", "report", "done", "crashed"}

\* C5: agent_refine calls the model at most 5 times and returns, whatever
\* the model replies or raises (every pass of the loop is one call and
\* either returns or moves to the next of the 5 attempts); when it returns
\* without a reply that passed
\* validate_gist_output (5 replies rejected, a call raised, no API key, no
\* SDK) it returns None, and main prints the five built lines, a blank line,
\* the five explanations and the stamp tagged [deterministic]
C5_RefineBoundedThenDeterministic ==
    /\ [](calls <= 5)
    /\ [](Returned => refined \in {"valid", "exhausted", "raised", "no api key", "no sdk"})
    /\ [](Returned /\ refined # "valid" => agent_output = None)
    /\ [](Published /\ refined # "valid" =>
            /\ source = T.deterministic
            /\ Len(lines) = 5
            /\ content = JoinNL(lines) \o T.nn \o JoinNL(explains) \o T.nn
                         \o T.stamp \o T.now \o T.lbracket \o T.deterministic
                         \o T.rbracket
            /\ stdout[Len(stdout)] = content \/ mpc # "printed")
    /\ [][mpc = "attempt" =>
             /\ calls' = calls + 1
             /\ \/ mpc' = "attempt" /\ attempt' = attempt + 1 /\ attempt' < 5
                \/ mpc' = "returned"]_vars

\* five replies were rejected and the deterministic rendering was printed
C5_Witness ==
    /\ mpc = "printed"
    /\ refined = "exhausted"
    /\ calls = 5
    /\ agent_output = None
    /\ source = T.deterministic

\* C7: every line the deterministic builders produce (the lines main
\* collects from build_line1..build_line5) has visual width <= 43
C7_DeterministicLinesFit ==
    \A k \in DOMAIN lines : visual_width(lines[k]) <= 43

\* what each failing source leaves in the dashboard
Placeholders ==
    /\ "vix" \in fails => StartsWith(lines[1], << White, SP >> \o T.vixQ \o << SP >>)
    /\ "fredM2" \in fails => Contains(explains[1], T.m2needs)
    /\ "fredHY" \in fails => ~Contains(explains[1], T.oas)
    /\ "tnx" \in fails => ~Contains(lines[1], T.tenY)
    /\ "spy" \in fails => lines[2] = T.flowUnavail /\ explains[2] = T.mktUnavail
    /\ "soxx" \in fails => ~Contains(explains[2], T.semi)
    /\ "nvda" \in fails => ~Contains(lines[3], T.nvda)
    /\ Families.edgar \subseteq fails =>
         /\ StartsWith(lines[3], << Clip, SP >> \o T.insdr \o T.quiet)
         /\ StartsWith(explains[3], T.clipSp \o T.noInsider)
    /\ "formD" \in fails => Contains(lines[3], T.formD \o << 48 >> \o T.ai)
    /\ "formDAll" \in fails => Contains(lines[3], << 48 >> \o T.totalWk)
    /\ "poly" \in fails =>
         /\ lines[4] = fmt2(<< Scale >>, T.polyUnavail, T.emdash)
         /\ explains[4] = T.predUnavail

IsPatch(e) == e.op = "PATCH"
IsSleep(e) == e.op = "sleep"
FailedPatch(e) == e.op = "PATCH" /\ ~e.ok
ByUpdateGist(e) == e.by = "update_gist"
ByUpdateContentGist(e) == e.by = "update_content_gist"
BySaveMemory(e) == e.by = "save_memory"

\* C9: update_gist runs the PATCH command at most 3 times; a successful
\* attempt is the last thing it does and makes it return True; a failed
\* attempt is followed by a 2 second sleep and the next attempt unless it is
\* the third, after which update_gist returns False; with no MONEY_GIST_ID
\* it returns False without an attempt
C9_UpdateGistThreeAttempts ==
    LET ug == SelectSeq(log, ByUpdateGist)
        att == SelectSeq(ug, IsPatch)
        failures == Len(SelectSeq(ug, FailedPatch))
    IN  /\ Len(att) <= 3
        /\ \A i \in DOMAIN att : att[i].ok => i = Len(att)
        /\ \A i \in DOMAIN ug :
             /\ IsPatch(ug[i]) /\ ug[i].ok => i = Len(ug) /\ ok = "True"
             /\ IsSleep(ug[i]) => /\ ug[i].secs = 2
                                  /\ i > 1 /\ FailedPatch(ug[i - 1])
                                  /\ i < Len(ug) \/ mpc \in {"patch", "crashed"}
             /\ FailedPatch(ug[i]) /\ i < Len(ug) => IsSleep(ug[i + 1])
        /\ Len(SelectSeq(ug, IsSleep)) = Min(failures, 2)
        /\ ok = "True" <=> (att # << >> /\ att[Len(att)].ok)
        /\ failures = 3 <=> (ok = "False" /\ env.gistId = "set")
        /\ env.gistId = "unset" => ok = "False" /\ ug = << >>
        /\ mpc \in {"report", "done"} /\ env.update = "passed" => ok \in {"True", "False"}

\* two failed attempts, each followed by a 2 second sleep, then a third
\* failed attempt and False
C9_Witness ==
    /\ mpc = "report"
    /\ ok = "False"
    /\ log = << Patch("update_gist", FALSE), Sleep("update_gist", 2),
                Patch("update_gist", FALSE), Sleep("update_gist", 2),
                Patch("update_gist", FALSE) >>

\* a run of either script is over
Finished == mpc \in {"done", "crashed"} \/ apc \in {"done", "exited"}

\* C10 as stated: whichever function sends it, a PATCH that fails is sent
\* again after a sleep, the same number of times for update_gist,
\* update_content_gist and save_memory
C10_EveryPatchRetried ==
    Finished =>
      \A i \in DOMAIN log :
         FailedPatch(log[i]) =>
            \/ i < Len(log) /\ IsSleep(log[i + 1]) /\ log[i + 1].by = log[i].by
            \/ /\ i >= 2 * PatchAttempts - 1
               /\ \A j \in 0..(PatchAttempts - 1) : /\ FailedPatch(log[i - 2 * j])
                                                    /\ log[i - 2 * j].by = log[i].by

\* C10: only update_gist retries: its failed PATCH is followed by a 2
\* second sleep and another attempt, up to 3 attempts; update_content_gist
\* and save_memory each send their PATCH once per call, failed or not, and
\* never sleep
C10_OnlyUpdateGistRetries ==
    LET ug == SelectSeq(log, ByUpdateGist)
        cg == SelectSeq(log, ByUpdateContentGist)
        sm == SelectSeq(log, BySaveMemory)
    IN  /\ \A i \in DOMAIN ug :
             FailedPatch(ug[i]) =>
                \/ i < Len(ug) /\ ug[i + 1] = Sleep("update_gist", Backoff)
                \/ i = 2 * PatchAttempts - 1
        /\ Len(SelectSeq(ug, IsPatch)) <= PatchAttempts
        /\ Len(cg) = (IF apc \in {"remember", "done"} THEN 1 ELSE 0)
        /\ Len(sm) = (IF apc = "done" THEN 1 ELSE 0)
        /\ \A i \in DOMAIN cg : IsPatch(cg[i])
        /\ \A i \in DOMAIN sm : IsPatch(sm[i])

\* both requests of the agent script failed and each was sent once
C10_Witness ==
    /\ apc = "done"
    /\ log = << Patch("update_content_gist", FALSE), Patch("save_memory", FALSE) >>

\* C11: a failed token refresh ends the agent run at once with exit code 1,
\* before the weather, the memory, the model or either gist is touched; no
\* other failure ends a run early or with a code other than 0.
C11_RefreshFailureAloneIsFatal ==
    /\ apc = "exited" =>
         /\ exitCode = 1
         /\ "refresh" \in down
         /\ weather = None /\ memory = None /\ raw = None /\ shown = None
         /\ log = << >> /\ stdout = << >>
    /\ "refresh" \in down => apc \in {"refresh", "exited"}
    /\ "refresh" \notin down => apc # "exited" /\ exitCode \in {-1, 0}
    /\ apc = "done" =>
         /\ exitCode = 0
         /\ weather # None /\ memory # None /\ shown # None
         /\ Len(log) = 2

\* C11: the exit changes neither gist, and a run that got past the refresh
\* goes through every later step in order.
C11_ExitWritesNothing ==
    [][/\ apc' = "exited" => apc = "refresh" /\ UNCHANGED <<stored, page>>
       /\ apc # apc' /\ apc' \notin {"exited", "refresh"} =>
            <<apc, apc'>> \in {<<"refresh", "weather">>, <<"weather", "memory">>,
                               <<"memory", "claude">>, <<"claude", "publish">>,
                               <<"publish", "remember">>, <<"remember", "done">>}]_vars

C11_WitnessOthersFail ==
    /\ apc = "done" /\ down = Services \ {"refresh"} /\ exitCode = 0

\* C12: whatever text the model or the fallback gave, the published text has
\* exactly 5 lines of at most 41 characters: line i is the i-th non-blank line
\* of the reply cut to 41 characters, or the 20-character filler when the reply
\* has fewer than i non-blank lines.
C12_FiveLinesOfAtMost41 ==
    apc = "joined" =>
        LET Holds(out, given) ==
                /\ Len(out) = 5
                /\ \A i \in 1..5 :
                     /\ Len(out[i]) <= 41
                     /\ IF i <= Len(given)
                        THEN out[i] = SubSeq(given[i], 1, Min(41, Len(given[i])))
                        ELSE out[i] = [j \in 1..20 |-> Dot]
        IN  Holds(Split(shown), SelectSeq(Split(Strip(raw)), NonBlank))

\* a reply of six non-blank lines, the first 42 characters long, was cut to
\* five lines, the first 41 long
C12_Witness ==
    /\ apc = "joined"
    /\ Len(SelectSeq(Split(raw), NonBlank)) = 6
    /\ Len(Split(raw)[1]) = 42
    /\ Len(Split(shown)) = 5
    /\ Len(Split(shown)[1]) = 41

\* C13 (as claimed): two emoji joined by U+200D measure 2 in all, so with 41
\* ordinary characters the line stays within the 43 the validator allows.
C13_ZwjSequenceIsTwoWide ==
    /\ wOut # -1
    /\ Len(wIn) = 3
    /\ IsWideGlyph(wIn[1]) /\ wIn[2] = ZWJ /\ IsWideGlyph(wIn[3])
    => /\ wOut = 2
       /\ wOut + 41 <= MaxWidth

\* C14: main calls update_gist only when --update is on the command line;
\* without it no PATCH is sent and the run ends with the dry-run note, and in
\* both modes the content was printed first.
C14_PushOnlyWithUpdate ==
    /\ env.update = "absent" =>
         /\ mpc = "done"
         /\ log = << >>
         /\ ok = "unset"
         /\ env.gistId = "unread"
         /\ Len(stdout) >= 3
         /\ SubSeq(stdout, Len(stdout) - 2, Len(stdout)) = << content, T.dashes, T.dryRun >>
    /\ mpc \in {"update_gist", "patch", "report", "crashed"} \/ log # << >> \/ ok # "unset"
         => env.update = "passed"
    /\ env.update = "passed" => \E i \in DOMAIN stdout : stdout[i] = content

\* C14: update_gist is entered only from the branch that saw --update
C14_UpdateGistOnlyAfterFlag ==
    [][mpc' = "update_gist" => mpc = "printed" /\ env'.update = "passed"]_vars

C14_Theorem ==
    /\ []C14_PushOnlyWithUpdate
    /\ C14_UpdateGistOnlyAfterFlag

\* a dry run has ended: content and note printed, nothing sent
C14_Witness ==
    /\ mpc = "done"
    /\ env.update = "absent"
    /\ log = << >>
    /\ SubSeq(stdout, Len(stdout) - 2, Len(stdout)) = << content, T.dashes, T.dryRun >>

\* C15 (as claimed): each of the five lines of the deterministic rendering
\* starts with its marker (a regime dot, money, clipboard, scales, bulb),
\* whichever sources failed and whichever builder raised.
C15_DeterministicLinesStartWithMarkers ==
    mpc = "printed" /\ source = T.deterministic =>
        \A i \in 1..5 : RequiredMarker(lines[i], i)

\* C16: when the request of attempt k+1 is about to be sent (k attempts were
\* rejected), the conversation holds 2 + 2k messages, the first two being the
\* initial ones.
C16_TwoMessagesPerRejection ==
    mpc = "attempt" =>
        /\ calls = attempt
        /\ Len(messages) = 2 + 2 * attempt
        /\ messages[1].role = "system" /\ messages[2].role = "user"
        /\ \A k \in 1..attempt :
             messages[2 * k + 1].role = "assistant" /\ messages[2 * k + 2].role = "user"

\* C16: every rejected attempt, the fifth included, appends the rejected output
\* as an assistant message and then a user message listing exactly the errors
\* validate_gist_output returned for it; the messages already there stay as
\* they are, in their order.
C16_RejectionAppendsOutputAndErrors ==
    [][mpc = "attempt" =>
         /\ refined' \notin {"valid", "raised"} => Len(messages') = Len(messages) + 2
         /\ messages' # messages =>
              \E kind \in DOMAIN Replies :
                  LET Listed(errs) ==
                          /\ errs # << >>
                          /\ messages'[Len(messages) + 2] =
                                 [role |-> "user",
                                  content |->
                                      T.fmtErrors
                                      \o JoinNL([i \in DOMAIN errs |-> ErrText(errs[i])])
                                      \o T.fixThese]
                      Fed(out, n) ==
                          /\ Len(messages') = n + 2
                          /\ messages'[n + 1] = [role |-> "assistant", content |-> out]
                          /\ SubSeq(messages', 1, n) = messages
                          /\ Listed(validate_gist_output(out))
                  IN  Fed(StripFences(Replies[kind]), Len(messages))]_vars

C16_Theorem ==
    /\ []C16_TwoMessagesPerRejection
    /\ C16_RejectionAppendsOutputAndErrors

\* two different outputs were rejected one after the other: the conversation
\* holds them in that order, each followed by its errors
C16_Witness ==
    /\ mpc = "attempt"
    /\ attempt = 2
    /\ Len(messages) = 6
    /\ messages[3].content = StripFences(Replies.broken)
    /\ Contains(messages[4].content, T.mustStart)
    /\ messages[5].content = StripFences(Replies.crammed)
    /\ Contains(messages[6].content, T.missingBlank)

\* C17: agent_refine returns a text only when the validator found no error in
\* it; main tags the content [agent] exactly then and [deterministic]
\* otherwise, and in both cases the content is the chosen text followed by the
\* timestamp line, which no validation sees.
C17_AgentTagOnlyWhenValid ==
    /\ agent_output # None => refined = "valid"
    /\ Returned /\ refined = "valid" => agent_output # None
    /\ mpc = "printed" =>
         LET Stamped(text, tag) ==
                 content = text \o T.nn \o T.stamp \o T.now \o T.lbracket \o tag
                                \o T.rbracket
         IN  /\ source \in {T.agent, T.deterministic}
             /\ source = T.agent <=> refined = "valid"
             /\ source = T.agent =>
                  /\ validate_gist_output(agent_output) = << >>
                  /\ Stamped(agent_output, T.agent)
             /\ source = T.deterministic =>
                  /\ agent_output = None
                  /\ Stamped(Deterministic(lines, explains), T.deterministic)

\* the third reply, fenced, passed the validator and was published as [agent]
C17_Witness ==
    /\ mpc = "printed"
    /\ calls = 3
    /\ source = T.agent
    /\ agent_output = StripFences(Replies.fenced)
    /\ Contains(content, T.lbracket \o T.agent \o T.rbracket)

\* C18: once a model call has raised, agent_refine has returned None and the
\* run makes no further call, however few of the 5 attempts were used.
C18_RaisedMeansReturnedNone ==
    refined = "raised" =>
        /\ Returned
        /\ agent_output = None
        /\ calls \in 1..5
        /\ Published => source = T.deterministic

\* C18: the step in which a call raises (it prints the attempt's error) is the
\* last of the loop, and no call follows it.
C18_ExceptionEndsLoop ==
    [][/\ /\ mpc = "attempt"
          /\ Len(stdout') > Len(stdout)
          /\ stdout'[Len(stdout) + 1] =
                 T.agentAttempt \o Digits(attempt + 1) \o T.errorSep \o T.apiError
          => /\ mpc' = "returned"
             /\ refined' = "raised"
             /\ agent_output' = None
             /\ calls' = calls + 1
       /\ refined = "raised" => calls' = calls]_vars

C18_Theorem ==
    /\ []C18_RaisedMeansReturnedNone
    /\ C18_ExceptionEndsLoop

\* the second call raised: two calls were made, and the deterministic text
\* was published
C18_Witness ==
    /\ refined = "raised"
    /\ calls = 2
    /\ mpc = "printed"
    /\ agent_output = None
    /\ source = T.deterministic

\* C19: the memory in the data gist, and the memory a finished run handed to
\* save_memory, hold at most 30 thoughts and at most 20 discoveries.
C19_MemoryWithinCaps ==
    /\ Len(stored.recent_thoughts) <= 30
    /\ Len(stored.discoveries) <= 20
    /\ apc = "done" =>
         /\ Len(memory.recent_thoughts) \in 1..30
         /\ Len(memory.discoveries) <= 20

\* C19: the run's update appends exactly one thought, the run's own, as the
\* last entry; what stays of the earlier thoughts and discoveries is the
\* newest of them, in their order, the oldest being dropped past the cap.
C19_AppendLastDropOldest ==
    [][apc = "remember" /\ apc' = "done" =>
         LET Shifted(old, new, cap) ==
                 /\ Len(new) = Min(Len(old) + 1, cap)
                 /\ \A i \in 1..(Len(new) - 1) : new[i] = old[i + Len(old) + 1 - Len(new)]
             Thoughts(old, new) ==
                 /\ Shifted(old, new, 30)
                 /\ new[Len(new)].time = now
                 /\ new[Len(new)].lines = Replace(shown, << NL >>, A.bar)
                 /\ \A i \in DOMAIN old : old[i].time # now
             Discoveries(old, new) ==
                 \/ new = old
                 \/ /\ Shifted(old, new, 20)
                    /\ new[Len(new)].time = now
         IN  /\ Thoughts(memory.recent_thoughts, memory'.recent_thoughts)
             /\ Discoveries(memory.discoveries, memory'.discoveries)
             /\ stored' \in {stored, memory'}]_vars

C19_Theorem ==
    /\ []C19_MemoryWithinCaps
    /\ C19_AppendLastDropOldest

\* run 252 found both lists full: its thought and its discovery went in last
\* and the oldest of each went out
C19_Witness ==
    /\ apc = "done"
    /\ stored = memory
    /\ memory.update_count = 252
    /\ Len(memory.recent_thoughts) = 30
    /\ memory.recent_thoughts[1].time = 223
    /\ memory.recent_thoughts[30].time = 252
    /\ Len(memory.discoveries) = 20
    /\ memory.discoveries[1].updates = 24
    /\ memory.discoveries[20].updates = 252

\* C20: a run that read the stored memory hands save_memory that memory's
\* update_count plus 1, and has appended a discovery, carrying the new count,
\* exactly when the new count is a multiple of 12; a save that succeeds
\* stores it.
C20_CountPlusOneDiscoveryEvery12 ==
    [][apc = "remember" /\ apc' = "done" /\ "memory" \notin down =>
         LET Counted(read, new) ==
                 /\ new.update_count = read.update_count + 1
                 /\ new.discoveries # read.discoveries <=> new.update_count % 12 = 0
                 /\ new.update_count % 12 = 0 =>
                      /\ new.discoveries # << >>
                      /\ new.discoveries[Len(new.discoveries)].updates = new.update_count
                      /\ new.discoveries[Len(new.discoveries)].time = now
                 /\ "memory gist" \notin down => stored' = new
         IN  Counted(stored, memory')]_vars

\* C20: until the update the memory in hand is the one read
C20_ReadIsStored ==
    apc \in {"claude", "publish", "remember"} /\ "memory" \notin down => memory = stored

C20_Theorem ==
    /\ []C20_ReadIsStored
    /\ C20_CountPlusOneDiscoveryEvery12

\* the run that read count 11 saved count 12 with its first discovery
C20_Witness ==
    /\ apc = "done"
    /\ "memory" \notin down
    /\ stored = memory
    /\ memory.update_count = 12
    /\ Len(memory.discoveries) = 1
    /\ memory.discoveries[1].updates = 12

\* C21: a run that could not read the stored memory goes on with the default
\* memory (count 0, no thoughts, no discoveries, mood newborn) and hands
\* save_memory that memory at count 1 with the run's thought alone.
C21_UnreadMemoryStartsAfresh ==
    "memory" \in down =>
        /\ apc \in {"claude", "publish", "remember"} =>
             /\ memory.update_count = 0
             /\ memory.recent_thoughts = << >>
             /\ memory.discoveries = << >>
             /\ memory.mood = "newborn"
             /\ memory.created_at = now
        /\ apc = "done" =>
             /\ memory.update_count = 1
             /\ Len(memory.recent_thoughts) = 1
             /\ memory.recent_thoughts[1].time = now
             /\ memory.discoveries = << >>
             /\ memory.created_at = now
             /\ "memory gist" \notin down => stored = memory

\* C21: the save of such a run, when it succeeds, replaces the stored memory:
\* none of the thoughts and discoveries stored before is in it.
C21_SaveDropsHistory ==
    [][/\ apc = "remember" /\ apc' = "done"
       /\ "memory" \in down /\ "memory gist" \notin down
       => /\ stored' = memory'
          /\ \A i \in DOMAIN stored.recent_thoughts :
                 stored.recent_thoughts[i] # stored'.recent_thoughts[1]
          /\ stored'.discoveries = << >>
          /\ stored'.update_count = 1]_vars

C21_Theorem ==
    /\ []C21_UnreadMemoryStartsAfresh
    /\ C21_SaveDropsHistory

\* the memory of 251 runs could not be read by run 252, whose save left a
\* memory of one update and one thought in its place
C21_Witness ==
    /\ apc = "done"
    /\ run = 1 /\ now = 252
    /\ down = {"memory"}
    /\ stored.update_count = 1
    /\ Len(stored.recent_thoughts) = 1
    /\ stored.discoveries = << >>

\* C22: when the model call fails the run goes on with the placeholder text;
\* every run past the model call sends the content-gist PATCH and then the
\* memory PATCH, whether or not the first succeeded, and ends with status 0
\* whether or not either succeeded.
C22_DegradeThenBothWrites ==
    /\ "claude" \in down /\ apc \in {"publish", "remember", "done"} =>
         /\ \E e \in DOMAIN ErrorTexts : raw = Fallback(ErrorTexts[e])
         /\ shown = JoinNL(EnforceLines(raw))
         /\ StartsWith(shown, SubSeq(A.flicker, 3, Len(A.flicker) - 3))
    /\ apc = "publish" => log = << >>
    /\ apc = "remember" =>
         log = << Patch("update_content_gist", "content gist" \notin down) >>
    /\ apc = "done" =>
         /\ log = << Patch("update_content_gist", "content gist" \notin down),
                     Patch("save_memory", "memory gist" \notin down) >>
         /\ exitCode = 0

\* C22: the steps after the model call follow one another: the content-gist
\* update, then the memory save, then the end of the run.
C22_WritesInOrder ==
    [][/\ apc = "claude" /\ apc' # apc => apc' = "publish"
       /\ apc = "publish" /\ apc' # apc => apc' = "remember" /\ exitCode' = -1
       /\ apc = "remember" /\ apc' # apc => apc' = "done" /\ exitCode' = 0]_vars

C22_Theorem ==
    /\ []C22_DegradeThenBothWrites
    /\ C22_WritesInOrder

\* the model call and both gist writes failed: the placeholder was shown, both
\* PATCHes were sent in order, and the run ended with 0
C22_Witness ==
    /\ apc = "done"
    /\ {"claude", "content gist", "memory gist"} \subseteq down
    /\ raw = Fallback(ErrorTexts.dns)
    /\ Len(log) = 2
    /\ ByUpdateContentGist(log[1]) /\ FailedPatch(log[1])
    /\ BySaveMemory(log[2]) /\ FailedPatch(log[2])
    /\ exitCode = 0

(***************************************************************************)
(* C23                                                                     *)
(***************************************************************************)
\* the cloud polygons of a document: the polygons one grid step high
C23_Polygons(doc) ==
    {i \in DOMAIN doc.features :
        /\ doc.features[i].geometry.type = "Polygon"
        /\ doc.features[i].geometry.north = doc.features[i].geometry.south + 1}

C23_PolygonsOf(doc, point) ==
    {i \in C23_Polygons(doc) :
        /\ doc.features[i].geometry.south = point.row
        /\ doc.features[i].geometry.west = point.col}

\* what the claim says of a cell with cloud cover cc from 5 to 100
C23_Styled(props, cc) ==
    /\ props.title = cc
    /\ 2 * Abs(Percent * props.fill_opacity - (OpacityBase * Percent + OpacitySpan * cc))
         <= Percent
    /\ props.fill_opacity >= 5 /\ props.fill_opacity <= 45
    /\ props.fill = (IF cc >= 80 THEN "#9E9E9E" ELSE IF cc >= 50 THEN "#BDBDBD" ELSE "#E0E0E0")

\* C23: build_geojson emits a cloud polygon for a grid cell exactly when the
\* cell's cloud cover is present and at least 5; for cloud cover cc from 5 to
\* 100 the fill opacity is 0.03 + (cc / 100) * 0.42 to the nearest hundredth,
\* between 0.05 and 0.45 and not smaller than the opacity of a cell with less
\* cloud, and the fill is #9E9E9E from 80, #BDBDBD from 50 to 79 and #E0E0E0
\* from 5 to 49.
C23_PolygonIffCloudy ==
    geojson # None =>
        /\ \A k \in DOMAIN grid :
            /\ Cardinality(C23_PolygonsOf(geojson, grid[k])) =
                 (IF Has(grid[k], "cloud_cover") /\ grid[k]["cloud_cover"] >= 5 THEN 1 ELSE 0)
            /\ \A i \in C23_PolygonsOf(geojson, grid[k]) :
                 grid[k]["cloud_cover"] <= 100 =>
                     C23_Styled(geojson.features[i].properties, grid[k]["cloud_cover"])
        /\ \A i, j \in C23_Polygons(geojson) :
             geojson.features[i].properties.title <= geojson.features[j].properties.title
                 => geojson.features[i].properties.fill_opacity
                      <= geojson.features[j].properties.fill_opacity

\* two cells whose rounded opacities differ although their cloud cover differs
\* by one, the second one at the first percent of the darkest fill
C23_Witness ==
    /\ cpc = "done"
    /\ Has(grid[1], "cloud_cover") /\ Has(grid[2], "cloud_cover")
    /\ grid[1]["cloud_cover"] = 79 /\ grid[2]["cloud_cover"] = 80
    /\ Cardinality(C23_Polygons(geojson)) = 2
    /\ geojson.features[1].properties.fill = "#BDBDBD"
    /\ geojson.features[1].properties.fill_opacity = 36
    /\ geojson.features[2].properties.fill = "#9E9E9E"
    /\ geojson.features[2].properties.fill_opacity = 37

(***************************************************************************)
(* C24                                                                     *)
(***************************************************************************)
\* the markers of a document with the given symbol
C24_Markers(doc, symbol) ==
    {i \in DOMAIN doc.features :
        /\ doc.features[i].geometry.type = "Point"
        /\ doc.features[i].properties.marker_symbol = symbol}

\* the polygons of a document that are cells of the grid, and its outlines
C24_Cells(doc) ==
    {i \in DOMAIN doc.features :
        /\ doc.features[i].geometry.type = "Polygon"
        /\ doc.features[i].geometry.north = doc.features[i].geometry.south + 1}

C24_Outlines(doc) ==
    {i \in DOMAIN doc.features :
        /\ doc.features[i].geometry.type = "Polygon"
        /\ doc.features[i].geometry.south = 0
        /\ doc.features[i].geometry.north = GRID_ROWS
        /\ doc.features[i].geometry.west = 0
        /\ doc.features[i].geometry.east = GRID_COLS}

\* the document has the fixed features, the Stanford markers exactly when the
\* scrape returned data, at most 36 cells, and none after a failed fetch
C24_Complete(doc) ==
    /\ doc.type = "FeatureCollection"
    /\ Cardinality(C24_Markers(doc, "star")) = 1
    /\ \E i \in C24_Markers(doc, "star") : doc.features[i].properties.title = "Palo Alto"
    /\ Cardinality(C24_Markers(doc, "airport")) = 5
    /\ {doc.features[i].properties.title : i \in C24_Markers(doc, "airport")}
         = {"KPAO", "KNUQ", "KSQL", "KSFO", "KSJC"}
    /\ Cardinality(C24_Outlines(doc)) = 1
    /\ Cardinality(C24_Markers(doc, "college")) = (IF stanford # None THEN 2 ELSE 0)
    /\ (stanford # None) = (campus.ok /\ campus.met)
    /\ Cardinality(C24_Cells(doc)) <= 36
    /\ ~meteo.ok => C24_Cells(doc) = {}

\* C24: the cloud-cover script always prints a FeatureCollection, whatever
\* fetches fail: a run that has not printed can take its next step, and the
\* printed document has the Palo Alto marker, the 5 METAR markers and the grid
\* outline, the two Stanford markers exactly when the Stanford scrape returned
\* data, at most 36 cloud polygons, and none when the cloud-cover fetch failed.
C24_AlwaysAFeatureCollection ==
    /\ cpc \in {"grid", "stanford", "build", "print", "done"}
    /\ cpc # "done" => ENABLED NextCloud
    /\ cpc = "done" =>
        /\ exitCode = 0
        /\ Len(stdout) = 1
        /\ stdout[1] = geojson
        /\ C24_Complete(stdout[1])

\* both fetches fail, and the document printed holds the seven fixed features
C24_Witness ==
    /\ cpc = "done"
    /\ ~meteo.ok /\ ~campus.ok
    /\ Len(stdout) = 1
    /\ Len(stdout[1].features) = 7
    /\ C24_Cells(stdout[1]) = {}

\* both fetches succeed and every cell is cloudy: 36 polygons and the two
\* Stanford markers
C24_WitnessFull ==
    /\ cpc = "done"
    /\ meteo.ok /\ campus.ok /\ campus.met
    /\ Len(stdout) = 1
    /\ Cardinality(C24_Cells(stdout[1])) = 36
    /\ Cardinality(C24_Markers(stdout[1], "college")) = 2

(***************************************************************************)
(* C25                                                                     *)
(***************************************************************************)
\* the regime dot of line 1 is as the claim says for these quotes: obtained
\* tells whether the VIX request answered, ratioed whether VIX / VIX3M could
\* be computed
C25_DotFor(dot, obtained, ratioed, vix, vix3m) ==
    LET Contango == ratioed /\ 100 * vix < 97 * vix3m
        Backwardation == ratioed /\ 100 * vix > 103 * vix3m
        Calm == vix < 150 /\ Contango
        Stressed == vix > 250 \/ Backwardation
    IN  IF obtained
        THEN /\ dot = Green <=> Calm
             /\ dot = Red <=> Stressed
             /\ dot = Yellow <=> ~Calm /\ ~Stressed
        ELSE dot \notin {Green, Red, Yellow}

\* C25: the regime dot at the start of line 1 is green exactly when VIX < 15
\* and VIX / VIX3M < 0.97, red exactly when VIX > 25 or VIX / VIX3M > 1.03,
\* and yellow in every other case in which VIX was obtained.
C25_RegimeDotSummarisesVolatility ==
    mpc = "built" =>
        /\ Len(lines) = 1
        /\ Len(lines[1]) >= 2
        /\ lines[1][2] = SP
        /\ C25_DotFor(lines[1][1], "vix" \notin fails,
                      fails = {} /\ profile.vix3m # 0, profile.vix, profile.vix3m)

\* VIX above 25 although the term structure is contango: the dot is red
C25_Witness ==
    /\ mpc = "built"
    /\ fails = {}
    /\ profile.vix = 251 /\ profile.vix3m = 300
    /\ lines[1][1] = Red

\* VIX below 15 but exactly 0.97 of VIX3M: the dot is yellow
C25_WitnessBoundary ==
    /\ mpc = "built"
    /\ fails = {}
    /\ profile.vix = 97 /\ profile.vix3m = 100
    /\ lines[1][1] = Yellow

\* VIX below 15 without a VIX3M quote: the dot is yellow
C25_WitnessNoRatio ==
    /\ mpc = "built"
    /\ fails = {"vix3m"}
    /\ profile.vix = 96
    /\ lines[1][1] = Yellow

=============================================================================
